---- MODULE Spec2Model ----
(***************************************************************************)
(* A model of the bounded result-assembly layer of file-search-mcp:        *)
(* the size-budget truncator (utils/truncate.ts), the query cache          *)
(* (utils/cache.ts) and the tool handlers that combine them (index.ts).    *)
(***************************************************************************)
EXTENDS Integers, Sequences, FiniteSets, TLC

(***************************************************************************)
(* Strings.  The truncator reads two things of a string: its length and    *)
(* the length of its JSON encoding.  A string is modelled as e characters  *)
(* that JSON.stringify escapes with a backslash (quote, backslash) followed *)
(* by p characters it copies as they are.                                  *)
(***************************************************************************)
Str(e, p) == [e |-> e, p |-> p]

Min(a, b) == IF a <= b THEN a ELSE b

\* String.prototype.length
StrLen(s) == s.e + s.p

\* s.slice(0, n)
Slice(s, n) == [e |-> Min(s.e, n), p |-> Min(s.p, n - Min(s.e, n))]

\* s + '...'
Ellipsis(s) == [e |-> s.e, p |-> s.p + 3]

\* JSON.stringify(s).length for a string s: two quotes, two characters for
\* each escaped one, one for each other.
JsonStr(s) == 2 + 2 * s.e + s.p

\* JSON.stringify(n).length for an integer n >= 0
Digits(n) == Len(ToString(n))

\* `"key":` inside an object
KeyLen(k) == Len(k) + 3

\* Commas between n members of an array or object
Commas(n) == IF n > 0 THEN n - 1 ELSE 0

RECURSIVE SumJsonStr(_)
SumJsonStr(a) == IF a = <<>> THEN 0 ELSE JsonStr(Head(a)) + SumJsonStr(Tail(a))

\* JSON length of an array of strings
JsonStrArr(a) == 2 + SumJsonStr(a) + Commas(Len(a))

\* JSON length of ContentMatch.context: {before: string[], after: string[]}
JsonContext(c) ==
  2 + KeyLen("before") + JsonStrArr(c.before) + 1 + KeyLen("after") + JsonStrArr(c.after)

\* JSON length of a ContentMatch {line, content, context?}
JsonMatch(m) ==
  2 + KeyLen("line") + Digits(m.line) + 1 + KeyLen("content") + JsonStr(m.content)
    + (IF "context" \in DOMAIN m THEN 1 + KeyLen("context") + JsonContext(m.context) ELSE 0)

RECURSIVE SumJsonMatch(_)
SumJsonMatch(ms) == IF ms = <<>> THEN 0 ELSE JsonMatch(Head(ms)) + SumJsonMatch(Tail(ms))

JsonMatchArr(ms) == 2 + SumJsonMatch(ms) + Commas(Len(ms))

\* JSON length of the value of field k of a FileMatch
JsonFileField(f, k) ==
  CASE k = "size"    -> Digits(f[k])
    [] k = "matches" -> JsonMatchArr(f[k])
    [] OTHER         -> JsonStr(f[k])

RECURSIVE SumFileFields(_, _)
SumFileFields(f, ks) ==
  IF ks = {} THEN 0
  ELSE LET k == CHOOSE x \in ks : TRUE
       IN  KeyLen(k) + JsonFileField(f, k) + SumFileFields(f, ks \ {k})

\* JSON length of a FileMatch: the fields it has, in braces, comma-separated
JsonFile(f) == 2 + SumFileFields(f, DOMAIN f) + Commas(Cardinality(DOMAIN f))

RECURSIVE SumJsonFile(_)
SumJsonFile(fs) == IF fs = <<>> THEN 0 ELSE JsonFile(Head(fs)) + SumJsonFile(Tail(fs))

JsonFileArr(fs) == 2 + SumJsonFile(fs) + Commas(Len(fs))

\* JSON length of a SearchResult {files, totalMatches, truncated, searchTime, reasoning}
JsonResult(r) ==
  2 + KeyLen("files") + JsonFileArr(r.files)
    + 1 + KeyLen("totalMatches") + Digits(r.totalMatches)
    + 1 + KeyLen("truncated") + (IF r.truncated THEN 4 ELSE 5)
    + 1 + KeyLen("searchTime") + Digits(r.searchTime)
    + 1 + KeyLen("reasoning") + JsonStr(r.reasoning)

MAX_TOKENS == 100000
CHARS_PER_TOKEN == 4
MAX_CHARS == MAX_TOKENS * CHARS_PER_TOKEN


(***************************************************************************)
(* utils/truncate.ts                                                       *)
(***************************************************************************)

\* delete o[k]
Delete(o, k) == [x \in DOMAIN o \ {k} |-> o[x]]

\* estimateChars(file): JSON.stringify(file).length
estimateChars(file) == JsonFile(file)

\* file.matches?.length || 1
MatchCount(file) ==
  IF "matches" \in DOMAIN file /\ Len(file.matches) # 0 THEN Len(file.matches) ELSE 1

\* Mutant of SelectionLoop: the entry that is cut off is counted too
RECURSIVE SelectionLoop_CountsCut(_, _, _)
SelectionLoop_CountsCut(files, maxChars, acc) ==
  IF files = <<>> THEN acc
  ELSE LET file == Head(files)
           fileChars == estimateChars(file)
       IN  IF acc.currentChars + fileChars > maxChars
           THEN [acc EXCEPT !.truncated = TRUE,
                            !.totalMatches = @ + MatchCount(file)]
           ELSE SelectionLoop_CountsCut(Tail(files), maxChars,
                  [files        |-> Append(acc.files, file),
                   totalMatches |-> acc.totalMatches + MatchCount(file),
                   truncated    |-> acc.truncated,
                   currentChars |-> acc.currentChars + fileChars])

\* Mutant of SelectionLoop: an entry that does not fit is passed over, and
\* the loop goes on to the entries after it
RECURSIVE SelectionLoop_PassingOver(_, _, _)
SelectionLoop_PassingOver(files, maxChars, acc) ==
  IF files = <<>> THEN acc
  ELSE LET file == Head(files)
           fileChars == estimateChars(file)
       IN  IF acc.currentChars + fileChars > maxChars
           THEN SelectionLoop_PassingOver(Tail(files), maxChars,
                  [acc EXCEPT !.truncated = TRUE])
           ELSE SelectionLoop_PassingOver(Tail(files), maxChars,
                  [files        |-> Append(acc.files, file),
                   totalMatches |-> acc.totalMatches + MatchCount(file),
                   truncated    |-> acc.truncated,
                   currentChars |-> acc.currentChars + fileChars])

\* The selection loop of truncateSearchResults; acc carries result.files,
\* result.totalMatches, result.truncated and currentChars.
RECURSIVE SelectionLoop(_, _, _)
SelectionLoop(files, maxChars, acc) ==
  IF files = <<>> THEN acc
  ELSE LET file == Head(files)
           fileChars == estimateChars(file)
       IN  IF acc.currentChars + fileChars > maxChars
           THEN [acc EXCEPT !.truncated = TRUE]
           ELSE SelectionLoop(Tail(files), maxChars,
                  [files        |-> Append(acc.files, file),
                   totalMatches |-> acc.totalMatches + MatchCount(file),
                   truncated    |-> acc.truncated,
                   currentChars |-> acc.currentChars + fileChars])

\* The body of `for (const match of result.files[i].matches!)`
DegradeMatch(match) ==
  LET m1 == IF StrLen(match.content) > 200
            THEN [match EXCEPT !.content = Ellipsis(Slice(match.content, 200))]
            ELSE match
  IN  Delete(m1, "context")

\* The body of the degrade loop for result.files[i]
DegradeFile(file) ==
  LET f1 == IF "matches" \in DOMAIN file
            THEN [file EXCEPT !.matches =
                    [j \in 1..Min(3, Len(file.matches)) |-> DegradeMatch(file.matches[j])]]
            ELSE file
  IN  Delete(f1, "preview")

\* Mutant of DegradeLoop: the loop starts at the first entry
DegradeLoop_FromStart(files) ==
  [i \in 1..Len(files) |-> DegradeFile(files[i])]

\* Mutant of DegradeLoop: the loop starts one entry too late
DegradeLoop_LateStart(files) ==
  [i \in 1..Len(files) |->
     IF i - 1 > Len(files) \div 2 THEN DegradeFile(files[i]) ELSE files[i]]

\* for (let i = Math.floor(result.files.length / 2); i < result.files.length; i++)
\* (i is 0-based in the code, sequences are 1-based here)
DegradeLoop(files) ==
  [i \in 1..Len(files) |->
     IF i - 1 >= Len(files) \div 2 THEN DegradeFile(files[i]) ELSE files[i]]

\* Mutant of DegradePhase: the guard forgets result.truncated
DegradePhase_Unguarded(sel) ==
  IF Len(sel.files) > 0 THEN DegradeLoop(sel.files) ELSE sel.files

\* if (result.truncated && result.files.length > 0) { degrade }
DegradePhase(sel) ==
  IF sel.truncated /\ Len(sel.files) > 0 THEN DegradeLoop(sel.files) ELSE sel.files

\* Phase 1 of truncateSearchResults: the envelope estimate, maxChars and the loop
Selection(files, reasoning, searchTime) ==
  LET currentChars == JsonResult([files |-> <<>>, totalMatches |-> 0, truncated |-> FALSE,
                                  searchTime |-> searchTime, reasoning |-> reasoning])
      maxChars == MAX_CHARS - 1000
  IN  SelectionLoop(files, maxChars,
        [files |-> <<>>, totalMatches |-> 0, truncated |-> FALSE,
         currentChars |-> currentChars])

\* The entries are values here; in the code they are the caller's objects,
\* which every caller in the repository builds afresh, one per file.
truncateSearchResults(files, reasoning, searchTime) ==
  LET sel == Selection(files, reasoning, searchTime)
  IN  [files        |-> DegradePhase(sel),
       totalMatches |-> sel.totalMatches,
       truncated    |-> sel.truncated,
       searchTime   |-> searchTime,
       reasoning    |-> reasoning]

\* A line of a tree text, of which the truncator reads the length; the marker
\* line is the one line it writes itself
Line(n) == [len |-> n, marker |-> FALSE]

\* '... [truncated - too many entries]'
MarkerLine == [len |-> 34, marker |-> TRUE]

RECURSIVE SumLen(_)
SumLen(lines) == IF lines = <<>> THEN 0 ELSE Head(lines).len + SumLen(Tail(lines))

\* text.length of the text whose lines these are, joined by '\n'; no line at
\* all is the empty string the loop starts from
TextLen(lines) == SumLen(lines) + Commas(Len(lines))

\* truncatedTree += '\n... [truncated - too many entries]'
AppendMarker(acc) == (IF acc = <<>> THEN <<Line(0)>> ELSE acc) \o <<MarkerLine>>

\* Mutant of Overflows: the test leaves out the margin of 100
Overflows_NoMargin(acc, line, maxChars) == TextLen(acc) + line.len + 1 > maxChars

\* truncatedTree.length + line.length + 1 > maxChars - 100
Overflows(acc, line, maxChars) == TextLen(acc) + line.len + 1 > maxChars - 100

\* Mutant of TreeLoop: a line that does not fit is left out and the loop
\* goes on to the lines after it
RECURSIVE TreeLoop_Skipping(_, _, _)
TreeLoop_Skipping(lines, acc, maxChars) ==
  IF lines = <<>> THEN [tree |-> AppendMarker(acc), truncated |-> TRUE]
  ELSE IF Overflows(acc, Head(lines), maxChars)
       THEN TreeLoop_Skipping(Tail(lines), acc, maxChars)
       ELSE TreeLoop_Skipping(Tail(lines), Append(acc, Head(lines)), maxChars)

\* The loop of truncateTreeResult over the lines left, with truncatedTree =
\* acc: what result.tree and result.truncated are after it
RECURSIVE TreeLoop(_, _, _)
TreeLoop(lines, acc, maxChars) ==
  IF lines = <<>> THEN [tree |-> acc, truncated |-> FALSE]
  ELSE IF Overflows(acc, Head(lines), maxChars)
       THEN [tree |-> AppendMarker(acc), truncated |-> TRUE]
       ELSE TreeLoop(Tail(lines), Append(acc, Head(lines)), maxChars)

\* truncateTreeResult(tree, totalFiles, totalDirs, reasoning), on a tree
\* given as its lines (tree.split('\n'))
truncateTreeResult(tree, totalFiles, totalDirs, reasoning) ==
  LET maxChars == MAX_CHARS - 1000
      res      == [tree |-> tree, totalFiles |-> totalFiles, totalDirs |-> totalDirs,
                   truncated |-> FALSE, reasoning |-> reasoning]
      looped   == TreeLoop(tree, <<>>, maxChars)
  IN  IF TextLen(tree) > maxChars
      THEN [res EXCEPT !.tree = looped.tree, !.truncated = looped.truncated]
      ELSE res

(***************************************************************************)
(* utils/truncate.ts: truncateString.  The string is the sequence of its    *)
(* characters.                                                              *)
(***************************************************************************)
\* String.prototype.slice(0, end): a negative end counts from the end of the
\* string
StringSlice(chars, end) ==
  LET to == IF end < 0 THEN (IF Len(chars) + end > 0 THEN Len(chars) + end ELSE 0)
            ELSE Min(end, Len(chars))
  IN  SubSeq(chars, 1, to)

\* truncateString(str, maxLength)
truncateString(str, maxLength) ==
  IF Len(str) <= maxLength THEN str
  ELSE StringSlice(str, maxLength - 3) \o <<".", ".", ".">>

(***************************************************************************)
(* utils/cache.ts: QueryCache.  The Map is a sequence of entries in         *)
(* insertion order, which is the order Map.entries() iterates in; an entry  *)
(* is [key, value, timestamp, hits].                                        *)
(***************************************************************************)

\* options.ttlMs and options.maxSize of the constructor
ttlMs == 1
maxSize == 2

\* What get returns for a miss.  A value is a record, as the results the
\* tools store are, and this is the one record that is no value.
Undefined == [undefined |-> TRUE]

\* Position of key in the Map, 0 when it has none
IndexOf(c, key) ==
  IF \E i \in 1..Len(c) : c[i].key = key
  THEN CHOOSE i \in 1..Len(c) : c[i].key = key
  ELSE 0

\* Map.prototype.delete
MapDelete(c, key) == SelectSeq(c, LAMBDA e : e.key # key)

\* Map.prototype.set: an existing key keeps its position, a new one goes last
MapSet(c, entry) ==
  IF IndexOf(c, entry.key) # 0
  THEN [c EXCEPT ![IndexOf(c, entry.key)] = entry]
  ELSE Append(c, entry)

\* Mutant of Expired: an entry expires only when its age is over twice ttlMs
Expired_AfterTwice(entry, t) == t - entry.timestamp > 2 * ttlMs

\* Mutant of Expired: an entry expires as soon as its age reaches ttlMs
Expired_AtTtl(entry, t) == t - entry.timestamp >= ttlMs

\* now - entry.timestamp > this.ttlMs
Expired(entry, t) == t - entry.timestamp > ttlMs

\* Mutant of get: an expired entry is deleted without counting a miss
get_SilentExpiry(q, key, t) ==
  LET i == IndexOf(q.cache, key)
  IN  IF i = 0
      THEN [q |-> [q EXCEPT !.misses = @ + 1], ret |-> Undefined]
      ELSE IF Expired(q.cache[i], t)
      THEN [q |-> [q EXCEPT !.cache = MapDelete(@, key)], ret |-> Undefined]
      ELSE [q |-> [q EXCEPT !.cache[i].hits = @ + 1, !.hits = @ + 1],
            ret |-> q.cache[i].value]

\* Mutant of get: a hit makes the entry as new as the hit, as a
\* least-recently-used cache would
get_Refreshing(q, key, t) ==
  LET i == IndexOf(q.cache, key)
  IN  IF i = 0
      THEN [q |-> [q EXCEPT !.misses = @ + 1], ret |-> Undefined]
      ELSE IF Expired(q.cache[i], t)
      THEN [q |-> [q EXCEPT !.cache = MapDelete(@, key), !.misses = @ + 1],
            ret |-> Undefined]
      ELSE [q |-> [q EXCEPT !.cache[i].hits = @ + 1, !.cache[i].timestamp = t,
                            !.hits = @ + 1],
            ret |-> q.cache[i].value]

\* QueryCache.get at time t, on the object q = [cache, hits, misses]
get(q, key, t) ==
  LET i == IndexOf(q.cache, key)
  IN  IF i = 0
      THEN [q |-> [q EXCEPT !.misses = @ + 1], ret |-> Undefined]
      ELSE IF Expired(q.cache[i], t)
      THEN [q |-> [q EXCEPT !.cache = MapDelete(@, key), !.misses = @ + 1],
            ret |-> Undefined]
      ELSE [q |-> [q EXCEPT !.cache[i].hits = @ + 1, !.hits = @ + 1],
            ret |-> q.cache[i].value]

\* The loop of evictOldest: `oldest` is the position of the entry it holds,
\* 0 for null
RECURSIVE OldestLoop(_, _, _)
OldestLoop(c, i, oldest) ==
  IF i > Len(c) THEN oldest
  ELSE IF oldest = 0 \/ c[i].timestamp < c[oldest].timestamp
       THEN OldestLoop(c, i + 1, i)
       ELSE OldestLoop(c, i + 1, oldest)

\* Mutant of Oldest: the scan keeps the entry with the largest timestamp
Oldest_Newest(c) ==
  IF c = <<>> THEN 0
  ELSE CHOOSE i \in 1..Len(c) :
         /\ \A j \in 1..Len(c) : c[j].timestamp <= c[i].timestamp
         /\ \A j \in 1..(i - 1) : c[j].timestamp < c[i].timestamp

\* The entry evictOldest settles on
Oldest(c) == OldestLoop(c, 1, 0)

\* QueryCache.evictOldest
evictOldest(c) ==
  IF Oldest(c) # 0 THEN MapDelete(c, c[Oldest(c)].key) ELSE c

\* Mutant of set: room is made only once the Map holds more than maxSize
set_Overfull(q, key, value, t) ==
  LET c1 == IF Len(q.cache) > maxSize THEN evictOldest(q.cache) ELSE q.cache
  IN  [q EXCEPT !.cache =
         MapSet(c1, [key |-> key, value |-> value, timestamp |-> t, hits |-> 0])]

\* QueryCache.set at time t
set(q, key, value, t) ==
  LET c1 == IF Len(q.cache) >= maxSize THEN evictOldest(q.cache) ELSE q.cache
  IN  [q EXCEPT !.cache =
         MapSet(c1, [key |-> key, value |-> value, timestamp |-> t, hits |-> 0])]

\* QueryCache.has at time t
has(q, key, t) ==
  LET i == IndexOf(q.cache, key)
  IN  IF i = 0 THEN [q |-> q, ret |-> FALSE]
      ELSE IF Expired(q.cache[i], t)
      THEN [q |-> [q EXCEPT !.cache = MapDelete(@, key)], ret |-> FALSE]
      ELSE [q |-> q, ret |-> TRUE]

\* Mutant of cleanup: the scan stops at the first expired entry
cleanup_OneOnly(q, t) ==
  LET stale == {i \in 1..Len(q.cache) : Expired(q.cache[i], t)}
  IN  IF stale = {} THEN [q |-> q, ret |-> 0]
      ELSE LET first == CHOOSE i \in stale : \A j \in stale : i <= j
           IN  [q   |-> [q EXCEPT !.cache = MapDelete(@, q.cache[first].key)],
                ret |-> 1]

\* QueryCache.cleanup at time t
cleanup(q, t) ==
  [q   |-> [q EXCEPT !.cache = SelectSeq(@, LAMBDA e : ~Expired(e, t))],
   ret |-> Len(SelectSeq(q.cache, LAMBDA e : Expired(e, t)))]

\* QueryCache.clear
clear(q) == [cache |-> <<>>, hits |-> 0, misses |-> 0]

\* new QueryCache(options)
NewCache == [cache |-> <<>>, hits |-> 0, misses |-> 0]

(***************************************************************************)
(* utils/cache.ts: QueryCache.generateKey.  Here a string value is the      *)
(* sequence of its characters, so that JSON.stringify can escape them one   *)
(* by one; a parameter object is the sequence of its properties, [name,     *)
(* value], in the order they were added, which is the order Object.keys     *)
(* lists them in; a value carries its JavaScript type.  The key itself and  *)
(* the tool and property names are strings.                                 *)
(***************************************************************************)
StrV(chars) == [type |-> "string", chars |-> chars, num |-> 0, bool |-> FALSE, items |-> <<>>]

NumV(n) == [type |-> "number", chars |-> <<>>, num |-> n, bool |-> FALSE, items |-> <<>>]

BoolV(b) == [type |-> "boolean", chars |-> <<>>, num |-> 0, bool |-> b, items |-> <<>>]

ListV(items) == [type |-> "list", chars |-> <<>>, num |-> 0, bool |-> FALSE, items |-> items]

\* Mutant of JsonChar: no character is escaped
JsonChar_Raw(ch) == ch

\* JSON.stringify of one character of a string: the quote and the backslash
\* get a backslash in front
JsonChar(ch) ==
  IF ch = "\"" THEN "\\\""
  ELSE IF ch = "\\" THEN "\\\\"
  ELSE ch

RECURSIVE JsonChars(_)
JsonChars(chars) ==
  IF chars = <<>> THEN "" ELSE JsonChar(Head(chars)) \o JsonChars(Tail(chars))

\* JSON.stringify of a string
JsonQuote(chars) == "\"" \o JsonChars(chars) \o "\""

\* The elements of an array, separated by commas
RECURSIVE JsonItems(_)
JsonItems(items) ==
  IF items = <<>> THEN ""
  ELSE IF Len(items) = 1 THEN JsonQuote(Head(items))
  ELSE JsonQuote(Head(items)) \o "," \o JsonItems(Tail(items))

\* JSON.stringify of a property value: a string, a finite number, a boolean
\* or an array of strings (the array replacer filters no array element)
JsonValue(v) ==
  CASE v.type = "string"  -> JsonQuote(v.chars)
    [] v.type = "number"  -> ToString(v.num)
    [] v.type = "boolean" -> (IF v.bool THEN "true" ELSE "false")
    [] v.type = "list"    -> "[" \o JsonItems(v.items) \o "]"

\* const { reasoning, ...rest } = params
Rest(params) == SelectSeq(params, LAMBDA p : p.name # "reasoning")

\* Object.keys(rest)
ObjectKeys(o) == [i \in 1..Len(o) |-> o[i].name]

\* The property names of the tools' parameters, in the order of their UTF-16
\* code units, which is the order Array.prototype.sort puts strings in
CodeUnitOrder ==
  <<"context_lines", "detail_level", "exclude", "file_pattern", "ignore_gitignore",
    "include_hidden", "min_size", "modified_within", "path", "pattern", "query",
    "reasoning">>

Rank(name) == CHOOSE i \in 1..Len(CodeUnitOrder) : CodeUnitOrder[i] = name

\* Mutant of Sort: the names stay in the order Object.keys gave them
Sort_AsGiven(names) == names

\* names.sort()
Sort(names) ==
  LET n == Len(names)
      \* the number of names that come before names[i] once sorted
      before(i) == Cardinality({j \in 1..n : Rank(names[j]) < Rank(names[i])})
  IN  [k \in 1..n |-> names[CHOOSE i \in 1..n : before(i) = k - 1]]

\* o[name]
Lookup(o, name) == o[CHOOSE i \in 1..Len(o) : o[i].name = name].value

\* The properties JSON.stringify(o, names) writes: those named in the array,
\* in the array's order
RECURSIVE JsonProperties(_, _)
JsonProperties(o, names) ==
  IF names = <<>> THEN ""
  ELSE LET name == Head(names)
           prop == "\"" \o name \o "\":" \o JsonValue(Lookup(o, name))
       IN  IF Len(names) = 1 THEN prop
           ELSE prop \o "," \o JsonProperties(o, Tail(names))

\* JSON.stringify(o, names) of an object with string, number, boolean and
\* string-array properties
JsonStringify(o, names) == "{" \o JsonProperties(o, names) \o "}"

\* QueryCache.generateKey(tool, params)
generateKey(tool, params) ==
  tool \o ":" \o JsonStringify(Rest(params), Sort(ObjectKeys(Rest(params))))

(***************************************************************************)
(* utils/symlink.ts: SymlinkTracker.  The tracker is [visitedInodes,        *)
(* visitedPaths].  What the file system answers for a path is a record:     *)
(*   ok      lstat(path) succeeds                                           *)
(*   ino     `${stats.dev}:${stats.ino}`                                    *)
(*   link    stats.isSymbolicLink()                                         *)
(*   realOk  realpath(path) succeeds                                        *)
(*   real    realpath(path)                                                 *)
(* checkAndMark gives the tracker after the call, what the call returned,   *)
(* and whether it threw.  The tracker belongs to one traversal, which       *)
(* awaits each call before it makes the next, so a call is one step.        *)
(***************************************************************************)
NewTracker == [visitedInodes |-> {}, visitedPaths |-> {}]

\* Mutant of checkAndMark: the identity is looked up and never recorded
checkAndMark_NoMark(tr, st) ==
  IF ~st.ok THEN [tr |-> tr, ret |-> FALSE, threw |-> FALSE]
  ELSE IF st.ino \in tr.visitedInodes THEN [tr |-> tr, ret |-> FALSE, threw |-> FALSE]
  ELSE IF ~st.link THEN [tr |-> tr, ret |-> TRUE, threw |-> FALSE]
  ELSE IF ~st.realOk THEN [tr |-> tr, ret |-> FALSE, threw |-> FALSE]
  ELSE IF st.real \in tr.visitedPaths THEN [tr |-> tr, ret |-> FALSE, threw |-> FALSE]
  ELSE [tr |-> [tr EXCEPT !.visitedPaths = @ \cup {st.real}], ret |-> TRUE,
        threw |-> FALSE]

\* Mutant of checkAndMark: the real path of a link is neither looked up nor
\* recorded
checkAndMark_InodesOnly(tr, st) ==
  IF ~st.ok THEN [tr |-> tr, ret |-> FALSE, threw |-> FALSE]
  ELSE IF st.ino \in tr.visitedInodes THEN [tr |-> tr, ret |-> FALSE, threw |-> FALSE]
  ELSE [tr |-> [tr EXCEPT !.visitedInodes = @ \cup {st.ino}],
        ret |-> st.link => st.realOk, threw |-> FALSE]

\* Mutant of checkAndMark: no inner try, and the outer catch lets the error
\* of realpath through
checkAndMark_Uncaught(tr, st) ==
  IF ~st.ok THEN [tr |-> tr, ret |-> FALSE, threw |-> FALSE]
  ELSE IF st.ino \in tr.visitedInodes THEN [tr |-> tr, ret |-> FALSE, threw |-> FALSE]
  ELSE LET marked == [tr EXCEPT !.visitedInodes = @ \cup {st.ino}]
       IN  IF ~st.link THEN [tr |-> marked, ret |-> TRUE, threw |-> FALSE]
           ELSE IF ~st.realOk THEN [tr |-> marked, ret |-> FALSE, threw |-> TRUE]
           ELSE IF st.real \in marked.visitedPaths
           THEN [tr |-> marked, ret |-> FALSE, threw |-> FALSE]
           ELSE [tr |-> [marked EXCEPT !.visitedPaths = @ \cup {st.real}],
                 ret |-> TRUE, threw |-> FALSE]

\* SymlinkTracker.checkAndMark(filePath), st being what the file system
\* answers for filePath
checkAndMark(tr, st) ==
  IF ~st.ok
  THEN \* lstat throws, the outer catch returns false
       [tr |-> tr, ret |-> FALSE, threw |-> FALSE]
  ELSE IF st.ino \in tr.visitedInodes
  THEN [tr |-> tr, ret |-> FALSE, threw |-> FALSE]
  ELSE LET marked == [tr EXCEPT !.visitedInodes = @ \cup {st.ino}]
       IN  IF ~st.link THEN [tr |-> marked, ret |-> TRUE, threw |-> FALSE]
           ELSE IF ~st.realOk
           THEN \* realpath throws, the inner catch returns false
                [tr |-> marked, ret |-> FALSE, threw |-> FALSE]
           ELSE IF st.real \in marked.visitedPaths
           THEN [tr |-> marked, ret |-> FALSE, threw |-> FALSE]
           ELSE [tr |-> [marked EXCEPT !.visitedPaths = @ \cup {st.real}],
                 ret |-> TRUE, threw |-> FALSE]

\* SymlinkTracker.reset()
reset(tr) == [visitedInodes |-> {}, visitedPaths |-> {}]

(***************************************************************************)
(* utils/suggestions.ts.  A query is a sequence of characters; a message   *)
(* is its template and the strings put into it.                            *)
(***************************************************************************)
UpperCase ==
  <<"A", "B", "C", "D", "E", "F", "G", "H", "I", "J", "K", "L", "M",
    "N", "O", "P", "Q", "R", "S", "T", "U", "V", "W", "X", "Y", "Z">>

LowerCase ==
  <<"a", "b", "c", "d", "e", "f", "g", "h", "i", "j", "k", "l", "m",
    "n", "o", "p", "q", "r", "s", "t", "u", "v", "w", "x", "y", "z">>

Range(f) == {f[i] : i \in DOMAIN f}

\* \w
WordChars == Range(UpperCase) \cup Range(LowerCase) \cup {"_"} \cup
             {"0", "1", "2", "3", "4", "5", "6", "7", "8", "9"}

\* \s
WhiteSpace == {" "}

\* The class [.()[\]{}+*?^$|]
SpecialChars == {".", "(", ")", "[", "]", "{", "}", "+", "*", "?", "^", "$", "|"}

\* sub occurs in s at position i
MatchesAt(s, sub, i) ==
  /\ i >= 1
  /\ i + Len(sub) - 1 <= Len(s)
  /\ SubSeq(s, i, i + Len(sub) - 1) = sub

\* s.includes(sub)
Includes(s, sub) == \E i \in 1..(Len(s) + 1) : MatchesAt(s, sub, i)

\* s.replace(sub, by): the first occurrence only
ReplaceFirst(s, sub, by) ==
  IF ~Includes(s, sub) THEN s
  ELSE LET i == CHOOSE k \in 1..(Len(s) + 1) :
                  /\ MatchesAt(s, sub, k)
                  /\ \A j \in 1..(k - 1) : ~MatchesAt(s, sub, j)
       IN  SubSeq(s, 1, i - 1) \o by \o SubSeq(s, i + Len(sub), Len(s))

\* s.split(ch): cur is the part being read
RECURSIVE SplitLoop(_, _, _)
SplitLoop(s, ch, cur) ==
  IF s = <<>> THEN <<cur>>
  ELSE IF Head(s) = ch THEN <<cur>> \o SplitLoop(Tail(s), ch, <<>>)
  ELSE SplitLoop(Tail(s), ch, Append(cur, Head(s)))

Split(s, ch) == SplitLoop(s, ch, <<>>)

RECURSIVE TrimStart(_)
TrimStart(s) == IF s # <<>> /\ Head(s) \in WhiteSpace THEN TrimStart(Tail(s)) ELSE s

RECURSIVE TrimEnd(_)
TrimEnd(s) ==
  IF s # <<>> /\ s[Len(s)] \in WhiteSpace THEN TrimEnd(SubSeq(s, 1, Len(s) - 1)) ELSE s

\* s.trim()
Trim(s) == TrimEnd(TrimStart(s))

\* Mutant of Shorter: the longer of the two
Shorter_Longer(a, b) == IF Len(a) > Len(b) THEN a ELSE b

\* (a, b) => a.length < b.length ? a : b
Shorter(a, b) == IF Len(a) < Len(b) THEN a ELSE b

\* parts.reduce(...), from the first part on
RECURSIVE Reduce(_, _)
Reduce(a, rest) == IF rest = <<>> THEN a ELSE Reduce(Shorter(a, Head(rest)), Tail(rest))

\* query.replace(/\.\*/g, ' ')
RECURSIVE ReplaceWildcards(_)
ReplaceWildcards(s) ==
  IF s = <<>> THEN <<>>
  ELSE IF MatchesAt(s, <<".", "*">>, 1)
  THEN <<" ">> \o ReplaceWildcards(SubSeq(s, 3, Len(s)))
  ELSE <<Head(s)>> \o ReplaceWildcards(Tail(s))

\* s.replace(/\s+/g, ' ')
RECURSIVE CollapseSpaces(_)
CollapseSpaces(s) ==
  IF s = <<>> THEN <<>>
  ELSE IF Head(s) \in WhiteSpace
  THEN <<" ">> \o CollapseSpaces(TrimStart(s))
  ELSE <<Head(s)>> \o CollapseSpaces(Tail(s))

\* /\\[.()[\]{}+*?^$|]/.test(query)
HasEscaped(s) == \E i \in 1..(Len(s) - 1) : s[i] = "\\" /\ s[i + 1] \in SpecialChars

\* query.replace(/\\([.()[\]{}+*?^$|])/g, '$1')
RECURSIVE Unescape(_)
Unescape(s) ==
  IF s = <<>> THEN <<>>
  ELSE IF Len(s) >= 2 /\ s[1] = "\\" /\ s[2] \in SpecialChars
  THEN <<s[2]>> \o Unescape(SubSeq(s, 3, Len(s)))
  ELSE <<Head(s)>> \o Unescape(Tail(s))

\* query.toLowerCase()
toLowerCase(s) ==
  [i \in 1..Len(s) |->
     IF s[i] \in Range(UpperCase)
     THEN LowerCase[CHOOSE k \in 1..26 : UpperCase[k] = s[i]]
     ELSE s[i]]

\* /\w+\.\w+$/.test(query)
FileLike(s) ==
  \E i \in 2..(Len(s) - 1) :
     /\ s[i] = "."
     /\ s[i - 1] \in WordChars
     /\ \A j \in (i + 1)..Len(s) : s[j] \in WordChars

ClassSuffixes ==
  {<<"C", "o", "n", "t", "r", "o", "l", "l", "e", "r">>,
   <<"S", "e", "r", "v", "i", "c", "e">>,
   <<"C", "o", "m", "p", "o", "n", "e", "n", "t">>}

\* /\w+Controller|\w+Service|\w+Component/.test(query)
ClassLike(s) ==
  \E suffix \in ClassSuffixes :
     \E i \in 2..Len(s) : MatchesAt(s, suffix, i) /\ s[i - 1] \in WordChars

\* A suggestion with its suggestedQuery, and one without
Suggestion(type, template, args, suggestedQuery) ==
  [type |-> type, message |-> [template |-> template, args |-> args],
   suggestedQuery |-> suggestedQuery]

Hint(template, args) ==
  [type |-> "hint", message |-> [template |-> template, args |-> args]]

\* 'No matches found. Try: 1) Broader search terms, ...'
GenericHint == Hint("No matches found", <<>>)

\* The block `if (query.includes('|'))`
OrSuggestions(query) ==
  IF Includes(query, <<"|">>)
  THEN LET parts    == [i \in 1..Len(Split(query, "|")) |-> Trim(Split(query, "|")[i])]
           simplest == Reduce(Head(parts), Tail(parts))
       IN  <<Suggestion("simplified", "Try searching for just", <<simplest>>, simplest)>>
             \o (IF Len(parts) <= 3
                 THEN <<Hint("Consider searching for each term separately", parts)>>
                 ELSE <<>>)
  ELSE <<>>

\* The block `if (/\.\*/.test(query))`
WildcardSuggestions(query) ==
  LET simpler == Trim(CollapseSpaces(ReplaceWildcards(query)))
  IN  IF Includes(query, <<".", "*">>) /\ simpler # query /\ Len(simpler) > 2
      THEN <<Suggestion("simplified", "Try a simpler search without wildcards",
                        <<simpler>>, simpler)>>
      ELSE <<>>

EscapeSuggestions(query) ==
  IF HasEscaped(query)
  THEN <<Suggestion("alternative", "If searching for literal text, try",
                    <<Unescape(query)>>, Unescape(query))>>
  ELSE <<>>

CaseSuggestions(query) ==
  IF (\E i \in 1..Len(query) : query[i] \in Range(UpperCase))
     /\ (\E i \in 1..Len(query) : query[i] \in Range(LowerCase))
  THEN <<Suggestion("alternative", "Search is case-sensitive. Try lowercase",
                    <<toLowerCase(query)>>, toLowerCase(query))>>
  ELSE <<>>

FileNameSuggestions(query) ==
  IF FileLike(query) \/ ClassLike(query)
  THEN <<Hint("If looking for a file by name, try fuzzy_find", <<>>)>>
  ELSE <<>>

\* if (tool === 'search_content') { ... }
ContentSuggestions(query) ==
  OrSuggestions(query) \o WildcardSuggestions(query) \o EscapeSuggestions(query)
    \o CaseSuggestions(query) \o FileNameSuggestions(query)

\* extensionTypos, in the order of its keys
extensionTypos ==
  <<[typo |-> <<".", "t", "y", "p", "e", "s", "c", "r", "i", "p", "t">>, correct |-> <<".", "t", "s">>],
    [typo |-> <<".", "j", "a", "v", "a", "s", "c", "r", "i", "p", "t">>, correct |-> <<".", "j", "s">>],
    [typo |-> <<".", "p", "y", "t", "h", "o", "n">>, correct |-> <<".", "p", "y">>],
    [typo |-> <<".", "y", "m", "l">>, correct |-> <<".", "y", "a", "m", "l">>],
    [typo |-> <<".", "y", "a", "m", "l">>, correct |-> <<".", "y", "m", "l">>]>>

RECURSIVE TypoSuggestions(_, _)
TypoSuggestions(query, typos) ==
  IF typos = <<>> THEN <<>>
  ELSE LET t == Head(typos)
       IN  (IF Includes(query, t.typo)
            THEN <<Suggestion("alternative", "Did you mean", <<t.correct, t.typo>>,
                              ReplaceFirst(query, t.typo, t.correct))>>
            ELSE <<>>)
             \o TypoSuggestions(query, Tail(typos))

\* if (tool === 'search_files') { ... }
FileSuggestions(query) ==
  (IF ~Includes(query, <<"*", "*">>) /\ ~Includes(query, <<"/">>)
   THEN <<Hint("Pattern automatically searches recursively", <<>>)>>
   ELSE <<>>)
    \o TypoSuggestions(query, extensionTypos)

\* Mutant of Universal: the generic hint is added to every answer
Universal_Always(suggestions) == Append(suggestions, GenericHint)

\* if (suggestions.length === 0) suggestions.push(the generic hint)
Universal(suggestions) ==
  IF Len(suggestions) = 0 THEN Append(suggestions, GenericHint) ELSE suggestions

generateZeroResultSuggestions(query, tool) ==
  Universal((IF tool = "search_content" THEN ContentSuggestions(query) ELSE <<>>)
              \o (IF tool = "search_files" THEN FileSuggestions(query) ELSE <<>>))

\* (query.match(/x/g) || []).length for a one-character pattern
CountChars(s, class) == Cardinality({i \in 1..Len(s) : s[i] \in class})

\* (query.match(/\.\*/g) || []).length
CountWildcards(s) == Cardinality({i \in 1..Len(s) : MatchesAt(s, <<".", "*">>, i)})

\* (query.match(/\[[^\]]+\]/g) || []).length: from position i on
RECURSIVE CountCharClasses(_, _)
CountCharClasses(s, i) ==
  IF i > Len(s) THEN 0
  ELSE IF /\ s[i] = "["
          /\ i + 1 <= Len(s)
          /\ s[i + 1] # "]"
          /\ \E j \in (i + 2)..Len(s) : s[j] = "]"
  THEN LET close == CHOOSE j \in (i + 2)..Len(s) :
                      s[j] = "]" /\ \A k \in (i + 2)..(j - 1) : s[k] # "]"
       IN  1 + CountCharClasses(s, close + 1)
  ELSE CountCharClasses(s, i + 1)

\* Mutant of Level: a score of 3 is complex already
Level_Early(halves) ==
  IF halves = 0 THEN "simple" ELSE IF halves < 6 THEN "moderate" ELSE "complex"

\* The level of totalComplexity, which is a multiple of one half and is
\* carried here as its double
Level(halves) ==
  IF halves = 0 THEN "simple" ELSE IF halves <= 6 THEN "moderate" ELSE "complex"

\* groupCount is the number of parentheses divided by 2, a number with a
\* fraction when that number is odd
analyzeQueryComplexity(query) ==
  LET orCount        == CountChars(query, {"|"})
      wildcardCount  == CountWildcards(query)
      parentheses    == CountChars(query, {"(", ")"})
      charClassCount == CountCharClasses(query, 1)
      halves         == 2 * orCount + 2 * wildcardCount + parentheses + 2 * charClassCount
  IN  [complexity |-> Level(halves),
       hints |-> (IF Level(halves) = "complex" THEN <<"Complex regex may be slow">> ELSE <<>>)
                   \o (IF orCount > 5 THEN <<"Query has OR alternatives">> ELSE <<>>)
                   \o (IF wildcardCount > 2 THEN <<"Multiple wildcards">> ELSE <<>>)]

(***************************************************************************)
(* utils/file-utils.ts: parseSize and parseDuration.  A parsed literal is   *)
(* [ok, ...]: ok is false where the code throws.                            *)
(***************************************************************************)
DigitChars == <<"0", "1", "2", "3", "4", "5", "6", "7", "8", "9">>

DigitValue(ch) == (CHOOSE k \in 1..10 : DigitChars[k] = ch) - 1

\* The number of digits s begins with
RECURSIVE LeadingDigits(_)
LeadingDigits(s) ==
  IF s # <<>> /\ Head(s) \in Range(DigitChars) THEN 1 + LeadingDigits(Tail(s)) ELSE 0

\* The number a sequence of digits reads as
RECURSIVE DigitsValue(_)
DigitsValue(ds) ==
  IF ds = <<>> THEN 0 ELSE 10 * DigitsValue(SubSeq(ds, 1, Len(ds) - 1)) + DigitValue(ds[Len(ds)])

RECURSIVE Pow10(_)
Pow10(n) == IF n = 0 THEN 1 ELSE 10 * Pow10(n - 1)

\* s.toUpperCase()
toUpperCase(s) ==
  [i \in 1..Len(s) |->
     IF s[i] \in Range(LowerCase)
     THEN UpperCase[CHOOSE k \in 1..26 : LowerCase[k] = s[i]]
     ELSE s[i]]

\* str.match(/^(\d+(?:\.\d+)?)\s*(unit|...)?$/i): whether it matches, the
\* digits of the number with the count of those after the point, and the
\* unit, "" when there is none
MatchLiteral(s, units) ==
  LET whole    == LeadingDigits(s)
      afterInt == SubSeq(s, whole + 1, Len(s))
      decimals == IF afterInt # <<>> /\ Head(afterInt) = "."
                  THEN LeadingDigits(Tail(afterInt)) ELSE 0
      number   == IF decimals > 0 THEN whole + 1 + decimals ELSE whole
      unit     == TrimStart(SubSeq(s, number + 1, Len(s)))
  IN  [ok       |-> whole > 0 /\ (unit = <<>> \/ toUpperCase(unit) \in units),
       digits   |-> SubSeq(s, 1, whole)
                      \o (IF decimals > 0 THEN SubSeq(s, whole + 2, whole + 1 + decimals)
                          ELSE <<>>),
       decimals |-> decimals,
       unit     |-> toUpperCase(unit)]

\* Math.floor(parseFloat(match[1]) * multiplier)
Scaled(m, multiplier) == (DigitsValue(m.digits) * multiplier) \div Pow10(m.decimals)

SizeUnits ==
  {<<"B">>, <<"K", "B">>, <<"M", "B">>, <<"G", "B">>, <<"T", "B">>}

SizeMultiplier(unit) ==
  CASE unit = <<>> -> 1
    [] unit = <<"B">> -> 1
    [] unit = <<"K", "B">> -> 1024
    [] unit = <<"M", "B">> -> 1024 * 1024
    [] unit = <<"G", "B">> -> 1024 * 1024 * 1024
    [] unit = <<"T", "B">> -> 1024 * 1024 * 1024 * 1024

parseSize(sizeStr) ==
  LET m == MatchLiteral(sizeStr, SizeUnits)
  IN  IF ~m.ok THEN [ok |-> FALSE, value |-> 0]
      ELSE [ok |-> TRUE, value |-> Scaled(m, SizeMultiplier(m.unit))]

\* The units of a duration, as toUpperCase writes them
DurationUnits == {<<"M">>, <<"H">>, <<"D">>, <<"W">>}

DurationMultiplier(unit) ==
  CASE unit = <<>> -> 60 * 60 * 1000
    [] unit = <<"M">> -> 60 * 1000
    [] unit = <<"H">> -> 60 * 60 * 1000
    [] unit = <<"D">> -> 24 * 60 * 60 * 1000
    [] unit = <<"W">> -> 7 * 24 * 60 * 60 * 1000

parseDuration(durationStr) ==
  LET m == MatchLiteral(durationStr, DurationUnits)
  IN  IF ~m.ok THEN [ok |-> FALSE, value |-> 0]
      ELSE [ok |-> TRUE, value |-> Scaled(m, DurationMultiplier(m.unit))]

(***************************************************************************)
(* A call of truncateSearchResults: the arguments, and what it returned.   *)
(***************************************************************************)
VARIABLES inFiles, inReasoning, inSearchTime, truncPc, result

truncVars == <<inFiles, inReasoning, inSearchTime, truncPc, result>>

\* Longest entry list handed to the truncator
MaxFiles == 3

\* Entries as the tools build them (search-files.ts, search-content.ts,
\* fuzzy-find.ts) and as the truncator's tests pass them.
PathOnly == [path |-> Str(0, 8)]

WithInfo == [path |-> Str(0, 8), size |-> 1234, sizeFormatted |-> Str(0, 6),
             modified |-> Str(0, 24)]

\* Two of these fit under MAX_CHARS - 1000, three do not
BigPreview == [path |-> Str(0, 8), preview |-> Str(0, 199400)]

\* One of these is larger than MAX_CHARS - 1000 and smaller than MAX_CHARS
HugePreview == [path |-> Str(0, 8), preview |-> Str(0, 399400)]

\* A match whose line is one character over the 200 the degrade phase keeps
LongLine == [path |-> Str(0, 8),
             matches |-> <<[line |-> 12, content |-> Str(0, 201)]>>]

NoMatches == [path |-> Str(0, 8), matches |-> <<>>]

Ctx == [before |-> <<Str(0, 40), Str(1, 40)>>, after |-> <<Str(0, 40)>>]

Rich == [path |-> Str(0, 8), size |-> 99, sizeFormatted |-> Str(0, 4),
         modified |-> Str(0, 24), preview |-> Str(2, 500),
         matches |-> <<[line |-> 1, content |-> Str(4, 300), context |-> Ctx],
                       [line |-> 20, content |-> Str(0, 10), context |-> Ctx],
                       [line |-> 21, content |-> Str(0, 200)],
                       [line |-> 300, content |-> Str(0, 250), context |-> Ctx],
                       [line |-> 301, content |-> Str(0, 5)]>>]

FileShapes == {PathOnly, WithInfo, BigPreview, HugePreview, LongLine, NoMatches, Rich}

RECURSIVE SeqsUpTo(_, _)
SeqsUpTo(S, n) ==
  IF n = 0 THEN {<<>>}
  ELSE LET shorter == SeqsUpTo(S, n - 1)
       IN  shorter \cup {Append(q, x) : q \in {r \in shorter : Len(r) = n - 1}, x \in S}

Reasonings == {Str(0, 14), Str(3, 20), Str(0, 400000)}

SearchTimes == {7, 1234}

EmptyResult == [files |-> <<>>, totalMatches |-> 0, truncated |-> FALSE,
                searchTime |-> 0, reasoning |-> Str(0, 0)]

TruncInit ==
  /\ inFiles \in SeqsUpTo(FileShapes, MaxFiles)
  /\ inReasoning \in Reasonings
  /\ inSearchTime \in SearchTimes
  /\ truncPc = "call"
  /\ result = EmptyResult

\* const result = truncateSearchResults(files, reasoning, searchTime)
TruncateSearchResults ==
  /\ truncPc = "call"
  /\ result' = truncateSearchResults(inFiles, inReasoning, inSearchTime)
  /\ truncPc' = "returned"
  /\ UNCHANGED <<inFiles, inReasoning, inSearchTime>>


(***************************************************************************)
(* A QueryCache under calls of its methods, with the clock (Date.now())     *)
(* moving forward between them.                                            *)
(*   qcache     the object: its Map and its hit and miss counters          *)
(*   now        Date.now()                                                 *)
(*   lastOp     the last step: a clock tick, or a call with its method,    *)
(*              key and return value, and for a set whether the key was    *)
(*              new to the Map and which keys the call removed; a call     *)
(*              takes no time, so `now` is the time of the call            *)
(*   live       history: per key, the last set(k, v) not since undone by   *)
(*              an eviction for capacity or a clear                        *)
(*   sawAbsent  history: per key, whether a get has returned undefined     *)
(*              since the last set of the key                              *)
(*   getCalls   history: how many get calls there were since construction  *)
(*              or the last clear, and how many of them returned a value   *)
(***************************************************************************)
VARIABLES qcache, now, lastOp, live, sawAbsent, getCalls

cacheVars == <<qcache, now, lastOp, live, sawAbsent, getCalls>>

\* Latest clock value, and the most get calls, of a run
MaxTime == 2
MaxGets == 2

Keys == {"a", "b", "c"}

Values == {[id |-> "v1"], [id |-> "v2"]}

\* A call record: ret is what get returned, found what has returned, removed
\* what cleanup returned
Op(op, key) ==
  [op |-> op, key |-> key, ret |-> Undefined, found |-> FALSE, removed |-> 0,
   fresh |-> FALSE, evicted |-> {}]

NotLive == [set |-> FALSE, t |-> 0, v |-> Undefined]

NoCalls == [n |-> 0, returned |-> 0]

\* The history of get calls after one more, which returned ret
Counted(calls, ret) ==
  [n |-> calls.n + 1, returned |-> calls.returned + (IF ret # Undefined THEN 1 ELSE 0)]

CacheInit ==
  /\ qcache = NewCache
  /\ now = 0
  /\ lastOp = Op("new", "")
  /\ live = [k \in Keys |-> NotLive]
  /\ sawAbsent = [k \in Keys |-> FALSE]
  /\ getCalls = NoCalls

\* The keys of a Map
KeysIn(c) == {c[i].key : i \in 1..Len(c)}

\* Time passes
Tick ==
  /\ now < MaxTime
  /\ now' = now + 1
  /\ lastOp' = Op("tick", "")
  /\ UNCHANGED <<qcache, live, sawAbsent, getCalls>>

\* cache.get(key)
Get(key) ==
  /\ qcache.hits + qcache.misses < MaxGets
  /\ LET r == get(qcache, key, now)
     IN  /\ qcache' = r.q
         /\ lastOp' = [Op("get", key) EXCEPT !.ret = r.ret]
         /\ sawAbsent' = IF r.ret = Undefined THEN [sawAbsent EXCEPT ![key] = TRUE]
                         ELSE sawAbsent
         /\ getCalls' = Counted(getCalls, r.ret)
  /\ UNCHANGED <<now, live>>

\* cache.set(key, value)
Set(key, value) ==
  LET q1 == set(qcache, key, value, now)
      gone == KeysIn(qcache.cache) \ KeysIn(q1.cache)
  IN  /\ qcache' = q1
      /\ lastOp' = [Op("set", key) EXCEPT
                      !.fresh = key \notin KeysIn(qcache.cache), !.evicted = gone]
      /\ live' = [k \in Keys |->
                    IF k = key THEN [set |-> TRUE, t |-> now, v |-> value]
                    ELSE IF k \in gone THEN NotLive
                    ELSE live[k]]
      /\ sawAbsent' = [sawAbsent EXCEPT ![key] = FALSE]
      /\ UNCHANGED <<now, getCalls>>

\* cache.has(key)
Has(key) ==
  /\ LET r == has(qcache, key, now)
     IN  /\ qcache' = r.q
         /\ lastOp' = [Op("has", key) EXCEPT !.found = r.ret]
  /\ UNCHANGED <<now, live, sawAbsent, getCalls>>

\* cache.cleanup(), from the interval timer or a direct call
Cleanup ==
  /\ LET r == cleanup(qcache, now)
     IN  /\ qcache' = r.q
         /\ lastOp' = [Op("cleanup", "") EXCEPT !.removed = r.ret]
  /\ UNCHANGED <<now, live, sawAbsent, getCalls>>

\* cache.clear()
Clear ==
  /\ qcache' = clear(qcache)
  /\ lastOp' = Op("clear", "")
  /\ live' = [k \in Keys |-> NotLive]
  /\ getCalls' = NoCalls
  /\ UNCHANGED <<now, sawAbsent>>

(***************************************************************************)
(* Two calls of QueryCache.generateKey, each on any tool name and any       *)
(* parameter object of the bounded family; a call is [tool, params, key],   *)
(* and NoCall until it is made.                                             *)
(***************************************************************************)
VARIABLES call1, call2

keyVars == <<call1, call2>>

KeyTools == {"search_files", "search_content"}

\* Values of the four kinds the tools' parameters have, among them a string
\* that reads like a number, one that reads like a boolean, and a one-element
\* list whose element reads like the separator of a two-element list
ParamValues ==
  {StrV(<<"1">>), NumV(1), StrV(<<"t", "r", "u", "e">>), BoolV(TRUE),
   ListV(<< <<"a">>, <<"b">> >>), ListV(<< <<"a", "\"", ",", "\"", "b">> >>)}

ReasoningValues == {StrV(<<"r", "1">>), StrV(<<"r", "2">>)}

PathValues == {StrV(<<"1">>), NumV(1)}

Properties ==
  {[name |-> "query", value |-> v] : v \in ParamValues}
    \cup {[name |-> "path", value |-> v] : v \in PathValues}
    \cup {[name |-> "reasoning", value |-> v] : v \in ReasoningValues}

\* Every object over these properties, in every order of its properties
ParamObjects ==
  {o \in SeqsUpTo(Properties, Cardinality({p.name : p \in Properties})) :
     \A i, j \in 1..Len(o) : i # j => o[i].name # o[j].name}

NoCall == [tool |-> "", params |-> <<>>, key |-> ""]

KeyInit == call1 = NoCall /\ call2 = NoCall

\* const key = QueryCache.generateKey(tool, params)
GenerateKey(tool, params) ==
  LET call == [tool |-> tool, params |-> params, key |-> generateKey(tool, params)]
  IN  IF call1 = NoCall
      THEN call1' = call /\ UNCHANGED call2
      ELSE call2 = NoCall /\ call2' = call /\ UNCHANGED call1

(***************************************************************************)
(* index.ts: the tool handlers over the shared cache, searchCache.  A       *)
(* handler is asynchronous: it runs up to the await of its search, other    *)
(* handlers, the clock and the cache's interval timer run meanwhile, and it *)
(* resumes with what the search produced.                                   *)
(*   handlers   per invocation: where it is, its tool, cacheKey and        *)
(*              reasoning, what it returned, and history of what it did:   *)
(*              asked (it called searchCache.get), fresh and freshValue    *)
(*              (the Map held an unexpired entry under its key when it was *)
(*              invoked, and that entry's value), ran (it called its       *)
(*              search or traversal), stored (it called searchCache.set),  *)
(*              touched (a step of it changed the Map), dropped (the       *)
(*              entries its steps removed, each with its age)              *)
(***************************************************************************)
VARIABLES handlers

handlerVars == <<handlers>>

Invocations == {"h1", "h2"}

SearchTools == {"search_files", "search_content", "fuzzy_find"}

Word_log == <<"l", "o", "g">>

Word_standard == <<"s", "t", "a", "n", "d", "a", "r", "d">>

\* The arguments of an invocation: what to look for, and a reasoning; the
\* two differ in their reasoning and in the order of their properties
HandlerArgs(tool) ==
  LET what == [name  |-> IF tool = "search_files" THEN "pattern" ELSE "query",
               value |-> StrV(Word_log)]
  IN  {<<what, [name |-> "reasoning", value |-> StrV(<<"r", "1">>)]>>,
       <<[name |-> "reasoning", value |-> StrV(<<"r", "2", "\"">>)], what>>}

\* The arguments of a tree invocation
TreeArgs == {<<[name |-> "reasoning", value |-> StrV(<<"r", "1">>)]>>}

\* The properties of a tool's schema that are required or have a default, in
\* the order of the schema, each with its default (types.ts)
Shape(tool) ==
  IF tool = "search_files"
  THEN <<[name |-> "reasoning"], [name |-> "include_hidden", value |-> BoolV(TRUE)],
         [name |-> "ignore_gitignore", value |-> BoolV(TRUE)],
         [name |-> "detail_level", value |-> StrV(Word_standard)],
         [name |-> "pattern"]>>
  ELSE IF tool = "search_content"
  THEN <<[name |-> "reasoning"], [name |-> "include_hidden", value |-> BoolV(TRUE)],
         [name |-> "ignore_gitignore", value |-> BoolV(TRUE)],
         [name |-> "detail_level", value |-> StrV(Word_standard)],
         [name |-> "query"], [name |-> "context_lines", value |-> NumV(2)]>>
  ELSE <<[name |-> "reasoning"], [name |-> "query"],
         [name |-> "include_hidden", value |-> BoolV(TRUE)],
         [name |-> "detail_level", value |-> StrV(Word_standard)]>>

\* name in o
HasOwn(o, name) == \E i \in 1..Len(o) : o[i].name = name

\* Schema.parse(args), for arguments that hold the required properties: the
\* properties come out in the schema's order, an absent one with its default
Parse(tool, args) ==
  [i \in 1..Len(Shape(tool)) |->
     LET s == Shape(tool)[i]
     IN  [name  |-> s.name,
          value |-> IF HasOwn(args, s.name) THEN Lookup(args, s.name) ELSE s.value]]

\* The words of suggestContextLines' patterns for imports, errors and
\* configuration
ImportWords ==
  {<<"i", "m", "p", "o", "r", "t">>, <<"r", "e", "q", "u", "i", "r", "e">>,
   <<"f", "r", "o", "m">>}

ErrorWords ==
  {<<"e", "r", "r", "o", "r">>, <<"e", "x", "c", "e", "p", "t", "i", "o", "n">>,
   <<"t", "h", "r", "o", "w">>, <<"c", "a", "t", "c", "h">>, Word_log,
   <<"c", "o", "n", "s", "o", "l", "e">>}

ConfigWords ==
  {<<"c", "o", "n", "f", "i", "g">>, <<"s", "e", "t", "t", "i", "n", "g", "s">>,
   <<"o", "p", "t", "i", "o", "n", "s">>, <<"e", "n", "v">>}

\* suggestContextLines(query) for a query of one lower-case word; its first
\* pattern takes a keyword, white space and a second word, so no such query
\* matches it
suggestContextLines(query) ==
  IF query \in ImportWords THEN 1
  ELSE IF query \in ErrorWords THEN 3
  ELSE IF query \in ConfigWords THEN 4
  ELSE 2

\* if (input.context_lines === 2) { ... input.context_lines = suggested }
AdjustContextLines(input) ==
  LET suggested == suggestContextLines(Lookup(input, "query").chars)
  IN  IF Lookup(input, "context_lines") = NumV(2) /\ suggested # 2
      THEN [i \in 1..Len(input) |->
              IF input[i].name = "context_lines"
              THEN [name |-> "context_lines", value |-> NumV(suggested)]
              ELSE input[i]]
      ELSE input

\* The input a handler works on
Input(tool, args) ==
  IF tool = "search_content" THEN AdjustContextLines(Parse(tool, args))
  ELSE Parse(tool, args)

\* The reasoning as the truncator measures it: how many of its characters
\* JSON.stringify escapes, and how many it copies
RECURSIVE Escapes(_)
Escapes(chars) ==
  IF chars = <<>> THEN 0
  ELSE (IF JsonChar(Head(chars)) # Head(chars) THEN 1 ELSE 0) + Escapes(Tail(chars))

Measure(chars) == Str(Escapes(chars), Len(chars) - Escapes(chars))

\* What the external matcher does: it fails, or finds nothing, a file, or a
\* file whose entry alone is over the truncator's budget
Matchers == {"throws", "none", "one", "huge"}

FileMatches(m) ==
  IF m = "one" THEN <<WithInfo>> ELSE IF m = "huge" THEN <<HugePreview>> ELSE <<>>

\* The message searchWithRipgrep throws when spawn fails with ENOENT: 142
\* characters, 3 of them line breaks
InstallGuidance == "ripgrep (rg) is not installed. Please install it: ..."

\* searchContent's result for a failure: `${reasoning}\n\nError: ${error.message}`
ErrorResult(reasoning) ==
  [files |-> <<>>, totalMatches |-> 0, truncated |-> FALSE, searchTime |-> 7,
   reasoning |-> [e |-> reasoning.e + 2 + 3, p |-> reasoning.p + 7 + 139,
                  error |-> InstallGuidance]]

\* Mutant of Throws: searchContent lets the failure of its matcher through
Throws_Uncaught(tool, m) == m = "throws"

\* Whether the search of a tool throws: searchContent catches what its
\* matcher throws, searchFiles and fuzzyFind do not
Throws(tool, m) == m = "throws" /\ tool # "search_content"

\* What the search of a tool resolves to
SearchResult(tool, m, reasoning) ==
  IF m = "throws" THEN ErrorResult(reasoning)
  ELSE truncateSearchResults(FileMatches(m), reasoning, 7)

\* What tree resolves to
TreeResult(reasoning) ==
  [tree |-> Str(0, 120), totalFiles |-> 3, totalDirs |-> 1, truncated |-> FALSE,
   reasoning |-> reasoning]

\* Mutant of Cached: the handler never takes the cached branch
Cached_Never(cached) == FALSE

\* if (cached)
Cached(cached) == cached # Undefined

\* Mutant of NonEmpty: every result counts as one to cache
NonEmpty_Always(res) == TRUE

\* if (result.files.length > 0)
NonEmpty(res) == Len(res.files) > 0

IdleHandler ==
  [pc |-> "idle", tool |-> "", key |-> "", reasoning |-> Str(0, 0),
   asked |-> FALSE, fresh |-> FALSE, freshValue |-> Undefined, ran |-> FALSE,
   outcome |-> "", ret |-> Undefined, stored |-> FALSE, touched |-> FALSE,
   dropped |-> {}]

HandlerInit == handlers = [h \in Invocations |-> IdleHandler]

\* The entries of c that c1 no longer has, each with its age at time t
Dropped(c, c1, t) ==
  {[key |-> c[i].key, age |-> t - c[i].timestamp] :
     i \in {j \in 1..Len(c) : c[j].key \notin KeysIn(c1)}}

\* The handler of search_files, search_content or fuzzy_find, up to its
\* return of a cached result or to the await of its search
StartSearch(h, tool, args) ==
  /\ handlers[h].pc = "idle"
  /\ qcache.hits + qcache.misses < MaxGets
  /\ LET input    == Input(tool, args)
         cacheKey == generateKey(tool, input)
         r        == get(qcache, cacheKey, now)
         held     == {i \in 1..Len(qcache.cache) :
                        /\ qcache.cache[i].key = cacheKey
                        /\ now - qcache.cache[i].timestamp <= ttlMs}
         invoked  == [IdleHandler EXCEPT
                        !.tool = tool, !.key = cacheKey,
                        !.reasoning = Measure(Lookup(input, "reasoning").chars),
                        !.asked = TRUE,
                        !.fresh = held # {},
                        !.freshValue = IF held # {}
                                       THEN qcache.cache[CHOOSE i \in held : TRUE].value
                                       ELSE Undefined,
                        !.touched = r.q.cache # qcache.cache,
                        !.dropped = Dropped(qcache.cache, r.q.cache, now)]
     IN  /\ qcache' = r.q
         /\ handlers' = [handlers EXCEPT ![h] =
              IF Cached(r.ret)
              THEN [invoked EXCEPT !.pc = "done", !.outcome = "cached", !.ret = r.ret]
              ELSE [invoked EXCEPT !.pc = "searching", !.ran = TRUE]]
         /\ getCalls' = Counted(getCalls, r.ret)
  /\ UNCHANGED <<now, lastOp, live, sawAbsent>>

\* The rest of that handler, once its search has settled
FinishSearch(h, m) ==
  /\ handlers[h].pc = "searching"
  /\ handlers[h].tool \in SearchTools
  /\ LET me  == handlers[h]
         res == SearchResult(me.tool, m, me.reasoning)
     IN  IF Throws(me.tool, m)
         THEN /\ handlers' = [handlers EXCEPT ![h].pc = "done", ![h].outcome = "failed"]
              /\ UNCHANGED qcache
         ELSE LET q1 == IF NonEmpty(res) THEN set(qcache, me.key, res, now) ELSE qcache
              IN  /\ qcache' = q1
                  /\ handlers' = [handlers EXCEPT ![h] =
                       [me EXCEPT
                          !.pc = "done",
                          !.outcome = IF m = "throws" THEN "failed"
                                      ELSE IF Len(res.files) = 0 THEN "empty"
                                      ELSE "found",
                          !.ret = res,
                          !.stored = NonEmpty(res),
                          !.touched = me.touched \/ q1.cache # qcache.cache,
                          !.dropped = me.dropped \cup Dropped(qcache.cache, q1.cache, now)]]
  /\ UNCHANGED <<now, lastOp, live, sawAbsent, getCalls>>

\* The handler of tree, up to the await of its traversal
StartTree(h, args) ==
  /\ handlers[h].pc = "idle"
  /\ handlers' = [handlers EXCEPT ![h] =
       [IdleHandler EXCEPT
          !.pc = "searching", !.tool = "tree",
          !.reasoning = Measure(Lookup(args, "reasoning").chars),
          !.ran = TRUE]]
  /\ UNCHANGED cacheVars

\* The rest of the tree handler
FinishTree(h, failed) ==
  /\ handlers[h].pc = "searching"
  /\ handlers[h].tool = "tree"
  /\ handlers' = [handlers EXCEPT ![h] =
       IF failed
       THEN [@ EXCEPT !.pc = "done", !.outcome = "failed"]
       ELSE [@ EXCEPT !.pc = "done", !.outcome = "found",
                      !.ret = TreeResult(handlers[h].reasoning)]]
  /\ UNCHANGED cacheVars

(***************************************************************************)
(* A call of truncateString and a call of truncateTreeResult: the           *)
(* arguments, and what the call returned.                                   *)
(***************************************************************************)
VARIABLES strCall, treeCall

utilVars == <<strCall, treeCall>>

\* Longest string and largest maxLength handed to truncateString
MaxStrLen == 4
MaxLength == 6

\* Most lines of a tree text handed to truncateTreeResult
MaxLines == 3

Chars == {"a", "b"}

\* Line lengths around the truncator's limits: MAX_CHARS - 1000 for the
\* text, 100 less for the loop
LineLengths == {0, 50, 99, 199400, 398850, 398899, 398990, 399001}

NoStrCall == [str |-> <<>>, maxLength |-> 0, pc |-> "idle", ret |-> <<>>]

NoTreeResult ==
  [tree |-> <<>>, totalFiles |-> 0, totalDirs |-> 0, truncated |-> FALSE,
   reasoning |-> Str(0, 0)]

NoTreeCall ==
  [tree |-> <<>>, totalFiles |-> 0, totalDirs |-> 0, reasoning |-> Str(0, 0),
   pc |-> "idle", ret |-> NoTreeResult]

UtilInit == strCall = NoStrCall /\ treeCall = NoTreeCall

StrCallInit ==
  /\ strCall \in {[NoStrCall EXCEPT !.str = str, !.maxLength = maxLength, !.pc = "call"] :
                    str \in SeqsUpTo(Chars, MaxStrLen), maxLength \in (-1)..MaxLength}
  /\ treeCall = NoTreeCall

\* A tree text has at least one line: ''.split('\n') is ['']
TreeCallInit ==
  /\ strCall = NoStrCall
  /\ treeCall \in {[NoTreeCall EXCEPT !.tree = [i \in 1..Len(lens) |-> Line(lens[i])],
                                      !.totalFiles = 3, !.totalDirs = 1,
                                      !.reasoning = reasoning, !.pc = "call"] :
                     lens \in SeqsUpTo(LineLengths, MaxLines) \ {<<>>},
                     reasoning \in {Str(0, 14), Str(3, 20)}}

\* const s = truncateString(str, maxLength)
TruncateString ==
  /\ strCall.pc = "call"
  /\ strCall' = [strCall EXCEPT !.pc = "returned",
                                !.ret = truncateString(strCall.str, strCall.maxLength)]
  /\ UNCHANGED treeCall

\* return truncateTreeResult(treeString, totalFiles, totalDirs, reasoning)
TruncateTreeResult ==
  /\ treeCall.pc = "call"
  /\ treeCall' = [treeCall EXCEPT
                    !.pc = "returned",
                    !.ret = truncateTreeResult(treeCall.tree, treeCall.totalFiles,
                                               treeCall.totalDirs, treeCall.reasoning)]
  /\ UNCHANGED strCall

(***************************************************************************)
(* One SymlinkTracker under calls of checkAndMark and reset, over a file    *)
(* system that does not change meanwhile.                                   *)
(*   tracker   the object                                                   *)
(*   epoch     history: how many resets there were                          *)
(*   checks    history: the calls of checkAndMark in order, each with its   *)
(*             path, the epoch it ran in, what it returned and whether it   *)
(*             threw                                                        *)
(***************************************************************************)
VARIABLES tracker, epoch, checks

trackerVars == <<tracker, epoch, checks>>

\* Most calls of checkAndMark, and most resets, of a run
MaxChecks == 3
MaxResets == 1

Answer(ok, ino, link, realOk, real) ==
  [ok |-> ok, ino |-> ino, link |-> link, realOk |-> realOk, real |-> real]

\* The file system: a directory /a with a link back to itself, a directory
\* /t with three links to it and a second path, a dangling link, and a path
\* that is not there
World ==
  [p \in {"/a", "/a/loop", "/a/loop/loop", "/t", "/t/.", "/l1", "/l2", "/l3",
          "/dangling", "/gone"} |->
     CASE p = "/a"           -> Answer(TRUE, "1:10", FALSE, TRUE, "/a")
       [] p = "/a/loop"      -> Answer(TRUE, "1:11", TRUE, TRUE, "/a")
       [] p = "/a/loop/loop" -> Answer(TRUE, "1:11", TRUE, TRUE, "/a")
       [] p = "/t"           -> Answer(TRUE, "1:20", FALSE, TRUE, "/t")
       [] p = "/t/."         -> Answer(TRUE, "1:20", FALSE, TRUE, "/t")
       [] p = "/l1"          -> Answer(TRUE, "1:21", TRUE, TRUE, "/t")
       [] p = "/l2"          -> Answer(TRUE, "1:22", TRUE, TRUE, "/t")
       [] p = "/l3"          -> Answer(TRUE, "1:23", TRUE, TRUE, "/t")
       [] p = "/dangling"    -> Answer(TRUE, "1:30", TRUE, FALSE, "")
       [] p = "/gone"        -> Answer(FALSE, "", FALSE, FALSE, "")]

TrackerInit == tracker = NewTracker /\ epoch = 0 /\ checks = <<>>

\* const isSafe = await tracker.checkAndMark(path)
CheckAndMark(path) ==
  /\ Len(checks) < MaxChecks
  /\ LET r == checkAndMark(tracker, World[path])
     IN  /\ tracker' = r.tr
         /\ checks' = Append(checks, [path |-> path, epoch |-> epoch, ret |-> r.ret,
                                      threw |-> r.threw])
  /\ UNCHANGED epoch

\* tracker.reset()
Reset ==
  /\ epoch < MaxResets
  /\ tracker' = reset(tracker)
  /\ epoch' = epoch + 1
  /\ UNCHANGED checks

(***************************************************************************)
(* tools/tree.ts: one traversal, buildTree, with the SymlinkTracker it      *)
(* creates.  A file system is a table of nodes; a directory node lists its  *)
(* entries, [name, node], and two entries may lead to one directory node,   *)
(* as a bind mount of a directory under itself does.  readdir reports a     *)
(* link as a link, so buildTree counts it as a file; only the root path is  *)
(* followed through a link.                                                 *)
(*   walk   the traversal: its arguments (fs, depth, include_hidden,        *)
(*          dirs_only), the stack of buildTree calls, each [node, depth,    *)
(*          entries left, phase], its tracker, totalFiles and totalDirs,    *)
(*          the tree so far, its entries in the order formatTree prints     *)
(*          them, each with its depth,                                      *)
(*          and history: per directory identity how often readdir listed    *)
(*          it, and how often checkAndMark refused a directory              *)
(***************************************************************************)
VARIABLES walk

walkVars == <<walk>>

\* Largest depth argument of a traversal
MaxDepth == 3

DirNode(ino, real, readable, entries) ==
  [kind |-> "dir", ino |-> ino, real |-> real, readable |-> readable,
   entries |-> entries, target |-> ""]

FileNode(ino) ==
  [kind |-> "file", ino |-> ino, real |-> "", readable |-> FALSE, entries |-> <<>>,
   target |-> ""]

\* A link to the node `target`; "" for a dangling one
LinkNode(ino, target) ==
  [kind |-> "link", ino |-> ino, real |-> "", readable |-> FALSE, entries |-> <<>>,
   target |-> target]

Entry(name, node) == [name |-> name, node |-> node]

\* A project: a source directory, a hidden and an excluded directory, a
\* directory that cannot be read, a file, and a link back to the root
PlainFs ==
  [root  |-> "r",
   nodes |-> [n \in {"r", "src", "deep", "git", "mods", "locked", "f", "g", "back"} |->
     CASE n = "r"      -> DirNode("1:1", "/r", TRUE,
                            <<Entry(".git", "git"), Entry("README.md", "f"),
                              Entry("back", "back"), Entry("locked", "locked"),
                              Entry("node_modules", "mods"), Entry("src", "src")>>)
       [] n = "src"    -> DirNode("1:2", "/r/src", TRUE,
                            <<Entry("a.ts", "g"), Entry("deep", "deep")>>)
       [] n = "deep"   -> DirNode("1:3", "/r/src/deep", TRUE, <<Entry("b.ts", "g")>>)
       [] n = "git"    -> DirNode("1:4", "/r/.git", TRUE, <<Entry("HEAD", "f")>>)
       [] n = "mods"   -> DirNode("1:5", "/r/node_modules", TRUE, <<Entry("x.js", "f")>>)
       [] n = "locked" -> DirNode("1:6", "/r/locked", FALSE, <<Entry("secret", "f")>>)
       [] n = "f"      -> FileNode("1:7")
       [] n = "g"      -> FileNode("1:8")
       [] n = "back"   -> LinkNode("1:9", "r")]]

\* A directory mounted again under itself and under its subdirectory: the
\* entries `again` lead to the root's own identity
BindFs ==
  [root  |-> "r",
   nodes |-> [n \in {"r", "sub", "f"} |->
     CASE n = "r"   -> DirNode("2:1", "/r", TRUE,
                         <<Entry("again", "r"), Entry("f.txt", "f"), Entry("sub", "sub")>>)
       [] n = "sub" -> DirNode("2:2", "/r/sub", TRUE, <<Entry("again", "r")>>)
       [] n = "f"   -> FileNode("2:3")]]

\* The root path is itself a link, to a directory that holds a link to
\* itself and a dangling link
LinkRootFs ==
  [root  |-> "l",
   nodes |-> [n \in {"l", "d", "sub", "self", "dangling", "f"} |->
     CASE n = "l"        -> LinkNode("3:1", "d")
       [] n = "d"        -> DirNode("3:2", "/d", TRUE,
                              <<Entry("dangling", "dangling"), Entry("self", "self"),
                                Entry("sub", "sub")>>)
       [] n = "sub"      -> DirNode("3:3", "/d/sub", TRUE, <<Entry("f", "f")>>)
       [] n = "self"     -> LinkNode("3:4", "d")
       [] n = "dangling" -> LinkNode("3:5", "")
       [] n = "f"        -> FileNode("3:6")]]

\* The root path is a link to a directory that is mounted again under
\* itself
LinkBindFs ==
  [root  |-> "l",
   nodes |-> [n \in {"l", "d", "f"} |->
     CASE n = "l" -> LinkNode("5:1", "d")
       [] n = "d" -> DirNode("5:2", "/d", TRUE, <<Entry("again", "d"), Entry("f", "f")>>)
       [] n = "f" -> FileNode("5:3")]]

\* Directories nested five deep
ChainFs ==
  [root  |-> "d1",
   nodes |-> [n \in {"d1", "d2", "d3", "d4", "d5", "f"} |->
     CASE n = "d1" -> DirNode("4:1", "/d1", TRUE, <<Entry("d2", "d2"), Entry("f", "f")>>)
       [] n = "d2" -> DirNode("4:2", "/d1/d2", TRUE, <<Entry("d3", "d3")>>)
       [] n = "d3" -> DirNode("4:3", "/d1/d2/d3", TRUE, <<Entry("d4", "d4"), Entry("f", "f")>>)
       [] n = "d4" -> DirNode("4:4", "/d1/d2/d3/d4", TRUE, <<Entry("d5", "d5")>>)
       [] n = "d5" -> DirNode("4:5", "/d1/d2/d3/d4/d5", TRUE, <<Entry("f", "f")>>)
       [] n = "f"  -> FileNode("4:6")]]

FileSystems == {PlainFs, BindFs, LinkRootFs, LinkBindFs, ChainFs}

\* Every device:inode identity of the file systems
Identities == UNION {{fs.nodes[n].ino : n \in DOMAIN fs.nodes} : fs \in FileSystems}

\* What lstat and realpath answer for a path that ends at node n
Stat(fs, n) ==
  LET node == fs.nodes[n]
  IN  IF node.kind = "link"
      THEN Answer(TRUE, node.ino, TRUE, node.target # "",
                  IF node.target # "" THEN fs.nodes[node.target].real ELSE "")
      ELSE Answer(TRUE, node.ino, FALSE, TRUE, node.real)

\* The node readdir reads for a path that ends at node n: readdir follows a
\* link
Followed(fs, n) ==
  IF fs.nodes[n].kind = "link" /\ fs.nodes[n].target # "" THEN fs.nodes[n].target ELSE n

\* Whether readdir succeeds there
Readable(fs, n) ==
  fs.nodes[Followed(fs, n)].kind = "dir" /\ fs.nodes[Followed(fs, n)].readable

\* entry.isDirectory()
IsDirectory(fs, e) == fs.nodes[e.node].kind = "dir"

\* entries.sort(...): directories first; the names of a node are given in
\* alphabetical order, which the comparison of names keeps
SortEntries(fs, entries) ==
  SelectSeq(entries, LAMBDA e : IsDirectory(fs, e))
    \o SelectSeq(entries, LAMBDA e : ~IsDirectory(fs, e))

\* name.startsWith('.'), for the names of the file systems above
Hidden(name) == name \in {".git"}

DEFAULT_EXCLUDES ==
  {"node_modules", ".git", "dist", "build", "coverage", ".next", ".nuxt",
   "__pycache__", ".pytest_cache", "venv", ".venv", "target", "vendor"}

\* The three `continue` tests of the loop
Skipped(w, e) ==
  \/ ~w.include_hidden /\ Hidden(e.name)
  \/ IsDirectory(w.fs, e) /\ e.name \in DEFAULT_EXCLUDES
  \/ w.dirs_only /\ ~IsDirectory(w.fs, e)

\* A call of buildTree(dirPath, currentDepth) that has not started yet
Frame(node, depth) == [node |-> node, depth |-> depth, entries |-> <<>>, phase |-> "enter"]

NoWalk ==
  [pc |-> "idle", fs |-> ChainFs, depth |-> 0, include_hidden |-> FALSE,
   dirs_only |-> FALSE, stack |-> <<>>, tracker |-> NewTracker,
   totalFiles |-> 0, totalDirs |-> 0, tree |-> <<>>,
   listed |-> [i \in Identities |-> 0], refused |-> 0]

WalkIdle == walk = NoWalk

\* tree(input): createSymlinkTracker(), then buildTree(absolutePath, 1)
WalkInit ==
  walk \in {[NoWalk EXCEPT !.pc = "walking", !.fs = fs, !.depth = depth,
                           !.include_hidden = hidden, !.dirs_only = dirs,
                           !.stack = <<Frame(fs.root, 1)>>] :
              fs \in FileSystems, depth \in 1..MaxDepth,
              hidden \in BOOLEAN, dirs \in BOOLEAN}

TopOf(w) == w.stack[Len(w.stack)]

Top == TopOf(walk)

Pop(stack) == SubSeq(stack, 1, Len(stack) - 1)

\* The traversal w after buildTree has run from its first line to the
\* result of readdir: the depth test, checkAndMark, readdir and the sort
Visited(w) ==
  LET top == TopOf(w)
      r   == checkAndMark(w.tracker, Stat(w.fs, top.node))
      at  == Len(w.stack)
  IN  IF top.depth > w.depth
      THEN [w EXCEPT !.stack = Pop(@)]
      ELSE IF ~r.ret
      THEN [w EXCEPT !.stack = Pop(@), !.tracker = r.tr, !.refused = @ + 1]
      ELSE IF ~Readable(w.fs, top.node)
      THEN [w EXCEPT !.stack = Pop(@), !.tracker = r.tr]
      ELSE LET dir == w.fs.nodes[Followed(w.fs, top.node)]
           IN  [w EXCEPT !.tracker = r.tr,
                         !.listed[dir.ino] = @ + 1,
                         !.stack[at].phase = "loop",
                         !.stack[at].entries = SortEntries(w.fs, dir.entries)]

\* After one turn of the loop on an entry that is skipped or is not a
\* directory
NextEntered(w) ==
  LET e  == Head(TopOf(w).entries)
      at == Len(w.stack)
  IN  IF Skipped(w, e)
      THEN [w EXCEPT !.stack[at].entries = Tail(@)]
      ELSE [w EXCEPT !.stack[at].entries = Tail(@),
                     !.totalFiles = @ + 1,
                     !.tree = Append(@, [name |-> e.name, depth |-> TopOf(w).depth,
                                         isDirectory |-> FALSE])]

\* After one turn of the loop on a directory: totalDirs++ and the call of
\* buildTree(fullPath, currentDepth + 1), whose result goes under the entry
Descended(w) ==
  LET e  == Head(TopOf(w).entries)
      at == Len(w.stack)
  IN  [w EXCEPT !.stack = Append([@ EXCEPT ![at].entries = Tail(@)],
                                 Frame(e.node, TopOf(w).depth + 1)),
                !.totalDirs = @ + 1,
                !.tree = Append(@, [name |-> e.name, depth |-> TopOf(w).depth,
                                    isDirectory |-> TRUE])]

\* buildTree from its first line to the result of readdir
Visit ==
  /\ walk.pc = "walking"
  /\ walk.stack # <<>>
  /\ Top.phase = "enter"
  /\ walk' = Visited(walk)

\* One turn of the loop on an entry that is skipped or is not a directory
NextEntry ==
  /\ walk.pc = "walking"
  /\ walk.stack # <<>>
  /\ Top.phase = "loop"
  /\ Top.entries # <<>>
  /\ Skipped(walk, Head(Top.entries)) \/ ~IsDirectory(walk.fs, Head(Top.entries))
  /\ walk' = NextEntered(walk)

\* One turn of the loop on a directory
Descend ==
  /\ walk.pc = "walking"
  /\ walk.stack # <<>>
  /\ Top.phase = "loop"
  /\ Top.entries # <<>>
  /\ ~Skipped(walk, Head(Top.entries))
  /\ IsDirectory(walk.fs, Head(Top.entries))
  /\ walk' = Descended(walk)

\* The loop has ended: return result
Return ==
  /\ walk.pc = "walking"
  /\ walk.stack # <<>>
  /\ Top.phase = "loop"
  /\ Top.entries = <<>>
  /\ walk' = [walk EXCEPT !.stack = Pop(@)]

\* buildTree(absolutePath, 1) has returned
Finish ==
  /\ walk.pc = "walking"
  /\ walk.stack = <<>>
  /\ walk' = [walk EXCEPT !.pc = "done"]

\* The next step of a traversal that has not ended
Step(w) ==
  IF w.stack = <<>> THEN [w EXCEPT !.pc = "done"]
  ELSE IF TopOf(w).phase = "enter" THEN Visited(w)
  ELSE IF TopOf(w).entries = <<>> THEN [w EXCEPT !.stack = Pop(@)]
  ELSE IF ~Skipped(w, Head(TopOf(w).entries)) /\ IsDirectory(w.fs, Head(TopOf(w).entries))
  THEN Descended(w)
  ELSE NextEntered(w)

(***************************************************************************)
(* Two calls of tree at once, their steps interleaved at the awaits of      *)
(* buildTree.                                                               *)
(*   walks      the two traversals                                          *)
(*   trackers   the SymlinkTracker instances, by the traversal that         *)
(*              created them                                                *)
(***************************************************************************)
VARIABLES walks, trackers

pairVars == <<walks, trackers>>

Traversals == {"t1", "t2"}

\* Mutant of createSymlinkTracker: one instance for every traversal
createSymlinkTracker_Singleton(t) == "t1"

\* const symlinkTracker = createSymlinkTracker(): the instance traversal t
\* holds is the one it created
createSymlinkTracker(t) == t

\* The file systems two traversals run over at once
PairFileSystems == {PlainFs, BindFs, LinkBindFs}

PairIdle ==
  /\ walks = [t \in Traversals |-> NoWalk]
  /\ trackers = [t \in Traversals |-> NewTracker]

\* Two calls of tree over one file system, each with its own depth and flags
PairInit ==
  /\ \E fs \in PairFileSystems :
       walks \in [Traversals ->
                    {[NoWalk EXCEPT !.pc = "walking", !.fs = fs, !.depth = depth,
                                    !.include_hidden = hidden,
                                    !.stack = <<Frame(fs.root, 1)>>] :
                       depth \in 2..MaxDepth, hidden \in BOOLEAN}]
  /\ trackers = [t \in Traversals |-> NewTracker]

\* Traversal t takes its next step, on the tracker it holds
StepOf(t) ==
  /\ walks[t].pc = "walking"
  /\ LET id == createSymlinkTracker(t)
         w1 == Step([walks[t] EXCEPT !.tracker = trackers[id]])
     IN  /\ walks' = [walks EXCEPT ![t] = w1]
         /\ trackers' = [trackers EXCEPT ![id] = w1.tracker]

\* The traversal w run from its start to its end with nothing in between
RECURSIVE RunAlone(_)
RunAlone(w) == IF w.pc = "done" THEN w ELSE RunAlone(Step(w))

(***************************************************************************)
(* Calls of generateZeroResultSuggestions and of analyzeQueryComplexity.   *)
(*   sugCall   the query, the tool and the suggestions returned            *)
(*   cxCall    the query and the complexity returned                       *)
(***************************************************************************)
VARIABLES sugCall, cxCall

suggestVars == <<sugCall, cxCall>>

\* Longest query built from the characters below
MaxQueryLen == 4

\* Queries of the tests of suggestions.ts and of the specification's examples
NamedQueries ==
  {<<"f", "o", "o", "|", "b", "a", "r", "l", "o", "n", "g", "|", "b", "a", "z", "z">>,
   <<"f", "o", "o", "|", "b", "a", "r", "|", "b", "a", "z">>,
   <<"f", "o", "o", ".", "*", "b", "a", "r", ".", "*", "b", "a", "z">>,
   <<"U", "s", "e", "r", "C", "o", "n", "t", "r", "o", "l", "l", "e", "r">>,
   <<"U", "s", "e", "r", "C", "o", "n", "t", "r", "o", "l", "l", "e", "r", ".", "t", "s">>,
   <<"f", "o", "o", "\\", ".", "b", "a", "r">>,
   <<"*", ".", "t", "s">>,
   <<"*", ".", "t", "y", "p", "e", "s", "c", "r", "i", "p", "t">>,
   <<"a", ".", "y", "m", "l">>,
   <<"a", "|", "b", "|", "c", "|", "d">>,
   <<" ", "a", " ", "|", " ", "b">>,
   <<"A", "u", "t", "h", "S", "e", "r", "v", "i", "c", "e">>}

NamedComplexQueries ==
  {<<"h", "e", "l", "l", "o", " ", "w", "o", "r", "l", "d">>,
   <<"f", "o", "o", "|", "b", "a", "r">>,
   <<"f", "o", "o", "|", "b", "a", "r", "|", "b", "a", "z", "|", "q", "u", "x", "|", "q", "u", "u", "x", "|", "c", "o", "r", "g", "e", "|", ".", "*", "g", "r", "a", "u", "l", "t">>,
   <<"a", "|", "b", "|", "c", "|", "d", "|", "e", "|", "f", "|", "g">>,
   <<"a", ".", "*", "b", ".", "*", "c", ".", "*", "d">>,
   <<"(", "(", "(", "(", "(", "(", "(">>}

SuggestionChars == {"a", "B", " ", "|", ".", "*", "\\", "/"}

ComplexityChars == {"a", "|", ".", "*", "(", ")", "[", "]"}

SuggestionTools == {"search_content", "search_files", "fuzzy_find"}

NoSugCall == [pc |-> "idle", query |-> <<>>, tool |-> "fuzzy_find", ret |-> <<>>]

NoCxCall == [pc |-> "idle", query |-> <<>>, ret |-> [complexity |-> "simple", hints |-> <<>>]]

SuggestIdle == sugCall = NoSugCall /\ cxCall = NoCxCall

SugCallInit ==
  /\ sugCall \in {[NoSugCall EXCEPT !.pc = "call", !.query = q, !.tool = t] :
                    q \in SeqsUpTo(SuggestionChars, MaxQueryLen) \cup NamedQueries,
                    t \in SuggestionTools}
  /\ cxCall = NoCxCall

CxCallInit ==
  /\ cxCall \in {[NoCxCall EXCEPT !.pc = "call", !.query = q] :
                   q \in SeqsUpTo(ComplexityChars, MaxQueryLen) \cup NamedComplexQueries}
  /\ sugCall = NoSugCall

\* const suggestions = generateZeroResultSuggestions(query, tool)
GenerateZeroResultSuggestions ==
  /\ sugCall.pc = "call"
  /\ sugCall' = [sugCall EXCEPT !.pc = "returned",
                                !.ret = generateZeroResultSuggestions(sugCall.query, sugCall.tool)]
  /\ UNCHANGED cxCall

\* const { complexity, hints } = analyzeQueryComplexity(query)
AnalyzeQueryComplexity ==
  /\ cxCall.pc = "call"
  /\ cxCall' = [cxCall EXCEPT !.pc = "returned", !.ret = analyzeQueryComplexity(cxCall.query)]
  /\ UNCHANGED sugCall

(***************************************************************************)
(* utils/metrics.ts: withMetrics around an operation, and the recording it  *)
(* starts and does not wait for.                                            *)
(*   mcalls   per call of withMetrics: how the wrapped operation settled    *)
(*            (exec), how withMetrics settled (out), the record it built,   *)
(*            the store its recording loaded, whether the recording logged  *)
(*            a failure, whether a rejection of the recording reached       *)
(*            nobody's handler (unhandled), and whether its readFile failed *)
(*            (readFailed)                                                  *)
(*   mfile    ~/.file-search-mcp/metrics.json: absent, not JSON, JSON that  *)
(*            is no store, or a store with its calls                        *)
(***************************************************************************)
VARIABLES mcalls, mfile

metricsVars == <<mcalls, mfile>>

MAX_CALLS_STORED == 10000

MetricCallers == {"m1", "m2"}

\* How execute() settles: with a search result, a tree result, some other
\* object, or an error
Execs ==
  {[kind |-> "returned", value |-> [files |-> <<PathOnly, PathOnly, PathOnly>>,
                                   totalMatches |-> 3, truncated |-> TRUE]],
   [kind |-> "returned", value |-> [totalMatches |-> 5, truncated |-> FALSE]],
   [kind |-> "returned", value |-> [totalFiles |-> 3, totalDirs |-> 1, truncated |-> FALSE]],
   [kind |-> "returned", value |-> [value |-> 42]],
   [kind |-> "threw", error |-> "test error"]}

\* The params of a call: the reasoning, and a query of some length
MetricParams ==
  {[reasoning |-> "r1", query |-> Str(0, 3)], [reasoning |-> "r2", query |-> Str(0, 201)]}

\* The counts withMetrics reads off a result
ResultCount(r) ==
  IF "files" \in DOMAIN r THEN Len(r.files)
  ELSE IF "totalMatches" \in DOMAIN r THEN r.totalMatches
  ELSE IF "totalFiles" \in DOMAIN r
  THEN r.totalFiles + (IF "totalDirs" \in DOMAIN r THEN r.totalDirs ELSE 0)
  ELSE 0

\* sanitizeParams(params)
sanitizeParams(params) ==
  [k \in DOMAIN params \ {"reasoning"} |->
     IF StrLen(params[k]) > 200 THEN Ellipsis(Slice(params[k], 200)) ELSE params[k]]

\* The record the finally block hands to recordToolCall, with the id that
\* recordToolCall gives it
ToolCall(c, tool, params, exec) ==
  [id |-> c, tool |-> tool, reasoning |-> params.reasoning,
   params |-> sanitizeParams(params),
   resultCount |-> IF exec.kind = "returned" THEN ResultCount(exec.value) ELSE 0,
   truncated |-> exec.kind = "returned" /\ "truncated" \in DOMAIN exec.value
                   /\ exec.value.truncated,
   error |-> IF exec.kind = "threw" THEN exec.error ELSE ""]

\* Mutant of Settle: an error of the operation is swallowed
Settle_Swallowing(exec) ==
  IF exec.kind = "threw" THEN [kind |-> "returned", value |-> [value |-> 0]] ELSE exec

\* try { return await execute() } catch (e) { throw e }: withMetrics settles
\* as execute() did
Settle(exec) == exec

\* recordToolCall's try { ... } catch (error) { console.error(...) }: what
\* its body throws is logged, and its promise is fulfilled
Recording(threw) == [logged |-> threw, rejected |-> FALSE]

\* recordToolCall(...).catch(() => {}): a rejection has a handler
CatchAttached == TRUE

\* The recording of call c ends, its body having thrown or not
EndRecording(call, threw) ==
  [call EXCEPT !.pc = "done",
               !.logged = Recording(threw).logged,
               !.unhandled = Recording(threw).rejected /\ ~CatchAttached]

\* store.calls.slice(-MAX_CALLS_STORED)
Trimmed(calls) ==
  IF Len(calls) > MAX_CALLS_STORED
  THEN SubSeq(calls, Len(calls) - MAX_CALLS_STORED + 1, Len(calls))
  ELSE calls

FileStates == {"absent", "not json", "no store", "store"}

File(state, calls) == [state |-> state, calls |-> calls]

IdleMetricCall ==
  [pc |-> "idle", exec |-> [kind |-> "none"], out |-> [kind |-> "none"],
   record |-> [id |-> ""], store |-> <<>>, logged |-> FALSE, unhandled |-> FALSE,
   readFailed |-> FALSE]

MetricsIdle ==
  /\ mcalls = [c \in MetricCallers |-> IdleMetricCall]
  /\ mfile = File("absent", <<>>)

MetricsInit ==
  /\ mcalls = [c \in MetricCallers |-> IdleMetricCall]
  /\ mfile \in {File(st, <<>>) : st \in FileStates}

\* withMetrics(tool, params, execute) from its call to its return or throw:
\* the finally block builds the record and calls recordToolCall, which runs
\* up to its await of loadMetrics
WithMetrics(c, tool, params, exec) ==
  /\ mcalls[c].pc = "idle"
  /\ mcalls' = [mcalls EXCEPT ![c] =
       [IdleMetricCall EXCEPT !.pc = "loading", !.exec = exec, !.out = Settle(exec),
                              !.record = ToolCall(c, tool, params, exec)]]
  /\ UNCHANGED mfile

\* loadMetrics settles and recordToolCall goes on to its await in
\* saveMetrics: a file that cannot be read or parsed gives the empty store; a
\* file that parses to something without calls makes push throw, which
\* recordToolCall catches and logs
LoadMetrics(c, readFails) ==
  /\ mcalls[c].pc = "loading"
  /\ LET store == IF readFails \/ mfile.state \in {"absent", "not json"} THEN <<>>
                  ELSE mfile.calls
     IN  IF ~readFails /\ mfile.state = "no store"
         THEN mcalls' = [mcalls EXCEPT ![c] = EndRecording(@, TRUE)]
         ELSE mcalls' = [mcalls EXCEPT ![c].pc = "saving",
                                       ![c].store = Append(store, mcalls[c].record),
                                       ![c].readFailed = readFails]
  /\ UNCHANGED mfile

\* saveMetrics, from the end of ensureMetricsDir to the end of writeFile: a
\* write that fails leaves the file as it was or cut short, and
\* recordToolCall catches and logs the failure
SaveMetrics(c, fault) ==
  /\ mcalls[c].pc = "saving"
  /\ IF fault = "none"
     THEN /\ mfile' = File("store", Trimmed(mcalls[c].store))
          /\ mcalls' = [mcalls EXCEPT ![c] = EndRecording(@, FALSE)]
     ELSE /\ mfile' = IF fault = "cut short" THEN File("not json", <<>>) ELSE mfile
          /\ mcalls' = [mcalls EXCEPT ![c] = EndRecording(@, TRUE)]

WriteFaults == {"none", "refused", "cut short"}

(***************************************************************************)
(* The search_files handler with its optional filters, over the shared      *)
(* cache (index.ts, tools/search-files.ts).                                 *)
(*   fsearch   the invocation: its arguments, its cache key, the cache's    *)
(*             entries when it began, the duration and size it filtered     *)
(*             by ("none" for a filter not applied), and how it ended       *)
(***************************************************************************)
VARIABLES fsearch

fileSearchVars == <<fsearch>>

\* Longest filter literal built from the characters below
MaxLiteralLen == 3

LiteralChars == {"1", "5", ".", "k", "B", "h", " "}

\* Literals of the README and of the schema's descriptions
NamedLiterals ==
  {<<"2", "4", "h">>, <<"7", "d">>, <<"3", "0", "m">>, <<"1", "M", "B">>, <<"5", "0", "0", "K", "B">>, <<"1", "0", "M", "B">>, <<"1", ".", "5", "k", "b">>, <<"a", "b", "c">>}

Literals == SeqsUpTo(LiteralChars, MaxLiteralLen) \cup NamedLiterals

\* A filter that is not among the arguments
Absent == [absent |-> TRUE]

Given(chars) == [absent |-> FALSE, chars |-> chars]

\* The arguments of an invocation: one filter is any literal, the other is
\* absent, well-formed or malformed
FilterArgs ==
  LET some == {Absent, Given(<<"1">>), Given(<<"x">>)}
  IN  {[modified_within |-> a, min_size |-> b] :
         a \in {Given(l) : l \in Literals}, b \in some}
        \cup {[modified_within |-> a, min_size |-> b] :
                a \in some, b \in {Given(l) : l \in Literals}}

\* What fastGlob finds: files with their age in ms and their size in bytes
Globs ==
  {<<>>,
   <<[age |-> 1000, size |-> 2000], [age |-> 90000000, size |-> 10]>>}

\* SearchFilesSchema.parse(args): the properties of the schema, and the
\* optional filters where they are given
FileSearchInput(args) ==
  Parse("search_files", <<[name |-> "pattern", value |-> StrV(Word_log)],
                          [name |-> "reasoning", value |-> StrV(<<"r", "1">>)]>>)
    \o (IF args.modified_within = Absent THEN <<>>
        ELSE <<[name |-> "modified_within", value |-> StrV(args.modified_within.chars)]>>)
    \o (IF args.min_size = Absent THEN <<>>
        ELSE <<[name |-> "min_size", value |-> StrV(args.min_size.chars)]>>)

\* if (modified_within): a string that is given and not empty
Truthy(arg) == arg # Absent /\ arg.chars # <<>>

\* searchFiles after fastGlob: the two filters, the entries and the
\* truncator.  threw is true where parseDuration or parseSize throws.
searchFiles(args, files, reasoning) ==
  LET duration == parseDuration(args.modified_within.chars)
      recent   == IF Truthy(args.modified_within)
                  THEN SelectSeq(files, LAMBDA f : f.age <= duration.value)
                  ELSE files
      size     == parseSize(args.min_size.chars)
      large    == IF Truthy(args.min_size)
                  THEN SelectSeq(recent, LAMBDA f : f.size >= size.value)
                  ELSE recent
      matches  == [i \in 1..Len(large) |-> [WithInfo EXCEPT !.size = large[i].size]]
  IN  IF Truthy(args.modified_within) /\ ~duration.ok
      THEN [threw |-> TRUE, durationMs |-> "none", sizeBytes |-> "none"]
      ELSE IF Truthy(args.min_size) /\ ~size.ok
      THEN [threw |-> TRUE,
            durationMs |-> IF Truthy(args.modified_within) THEN duration.value ELSE "none",
            sizeBytes |-> "none"]
      ELSE [threw |-> FALSE,
            durationMs |-> IF Truthy(args.modified_within) THEN duration.value ELSE "none",
            sizeBytes |-> IF Truthy(args.min_size) THEN size.value ELSE "none",
            result |-> truncateSearchResults(matches, reasoning, 7)]

NoFileSearch ==
  [pc |-> "idle", args |-> [modified_within |-> Absent, min_size |-> Absent], key |-> "",
   before |-> <<>>, outcome |-> "", durationMs |-> "none", sizeBytes |-> "none",
   ret |-> Undefined]

FileSearchIdle == fsearch = NoFileSearch

\* A cache that is empty, or holds the result of another request
FileSearchCacheInit ==
  /\ qcache \in {NewCache,
                 set(NewCache, "search_files:{}", [id |-> "v1"], 0)}
  /\ now = 0
  /\ lastOp = [op |-> "tick"]
  /\ live = [k \in Keys |-> NotLive]
  /\ sawAbsent = [k \in Keys |-> FALSE]
  /\ getCalls = NoCalls

\* The search_files handler up to its return of a cached result or to the
\* await of fastGlob
StartFileSearch(args) ==
  /\ fsearch.pc = "idle"
  /\ LET input    == FileSearchInput(args)
         cacheKey == generateKey("search_files", input)
         r        == get(qcache, cacheKey, now)
     IN  /\ qcache' = r.q
         /\ getCalls' = Counted(getCalls, r.ret)
         /\ fsearch' = IF Cached(r.ret)
                       THEN [NoFileSearch EXCEPT !.pc = "done", !.args = args,
                                                 !.key = cacheKey,
                                                 !.before = qcache.cache,
                                                 !.outcome = "cached", !.ret = r.ret]
                       ELSE [NoFileSearch EXCEPT !.pc = "globbing", !.args = args,
                                                 !.key = cacheKey,
                                                 !.before = qcache.cache]
  /\ UNCHANGED <<now, lastOp, live, sawAbsent>>

\* The rest of the handler, once fastGlob has settled: the search, which
\* withMetrics lets through as it settles, and the store of a result with
\* entries
FinishFileSearch(files) ==
  /\ fsearch.pc = "globbing"
  /\ LET s == searchFiles(fsearch.args, files, Measure(<<"r", "1">>))
     IN  IF s.threw
         THEN /\ fsearch' = [fsearch EXCEPT !.pc = "done", !.outcome = "raised",
                                            !.durationMs = s.durationMs,
                                            !.sizeBytes = s.sizeBytes]
              /\ UNCHANGED qcache
         ELSE /\ fsearch' = [fsearch EXCEPT !.pc = "done", !.outcome = "returned",
                                            !.durationMs = s.durationMs,
                                            !.sizeBytes = s.sizeBytes,
                                            !.ret = s.result]
              /\ qcache' = IF NonEmpty(s.result)
                           THEN set(qcache, fsearch.key, s.result, now)
                           ELSE qcache
  /\ UNCHANGED <<now, lastOp, live, sawAbsent, getCalls>>

(***************************************************************************)
(* Specifications                                                          *)
(***************************************************************************)
vars ==
  <<truncVars, cacheVars, keyVars, handlerVars, utilVars, trackerVars, walkVars, suggestVars,
    metricsVars, fileSearchVars, pairVars>>

\* No truncateSearchResults call under way
TruncIdle ==
  /\ inFiles = <<>>
  /\ inReasoning = Str(0, 0)
  /\ inSearchTime = 0
  /\ truncPc = "idle"
  /\ result = EmptyResult

\* The state before anything has run: no truncateSearchResults call under
\* way, a new cache, no key generated, no handler invoked
Init == TruncIdle /\ CacheInit /\ KeyInit /\ HandlerInit /\ UtilInit /\ TrackerInit /\ WalkIdle /\ SuggestIdle /\ MetricsIdle /\ FileSearchIdle /\ PairIdle

\* One call of truncateSearchResults on every input of the bounded families
TruncNext == TruncateSearchResults /\ UNCHANGED <<cacheVars, keyVars, handlerVars, utilVars, trackerVars, walkVars, suggestVars, metricsVars, fileSearchVars, pairVars>>

TruncSpecInit == TruncInit /\ CacheInit /\ KeyInit /\ HandlerInit /\ UtilInit /\ TrackerInit /\ WalkIdle /\ SuggestIdle /\ MetricsIdle /\ FileSearchIdle /\ PairIdle

TruncSpec == TruncSpecInit /\ [][TruncNext]_vars

\* One QueryCache object under every sequence of calls and clock ticks
CacheNext ==
  \/ Tick /\ UNCHANGED <<truncVars, keyVars, handlerVars, utilVars, trackerVars, walkVars, suggestVars, metricsVars, fileSearchVars, pairVars>>
  \/ (\E key \in Keys : Get(key)) /\ UNCHANGED <<truncVars, keyVars, handlerVars, utilVars, trackerVars, walkVars, suggestVars, metricsVars, fileSearchVars, pairVars>>
  \/ (\E key \in Keys, value \in Values : Set(key, value))
       /\ UNCHANGED <<truncVars, keyVars, handlerVars, utilVars, trackerVars, walkVars, suggestVars, metricsVars, fileSearchVars, pairVars>>
  \/ (\E key \in Keys : Has(key)) /\ UNCHANGED <<truncVars, keyVars, handlerVars, utilVars, trackerVars, walkVars, suggestVars, metricsVars, fileSearchVars, pairVars>>
  \/ Cleanup /\ UNCHANGED <<truncVars, keyVars, handlerVars, utilVars, trackerVars, walkVars, suggestVars, metricsVars, fileSearchVars, pairVars>>
  \/ Clear /\ UNCHANGED <<truncVars, keyVars, handlerVars, utilVars, trackerVars, walkVars, suggestVars, metricsVars, fileSearchVars, pairVars>>

CacheSpec == Init /\ [][CacheNext]_vars

\* Two calls of generateKey on every pair of inputs of the bounded families
KeyNext ==
  /\ call2 = NoCall
  /\ \E tool \in KeyTools, params \in ParamObjects : GenerateKey(tool, params)
  /\ UNCHANGED <<truncVars, cacheVars, handlerVars, utilVars, trackerVars, walkVars, suggestVars, metricsVars, fileSearchVars, pairVars>>

KeySpec == Init /\ [][KeyNext]_vars

\* The tool handlers, interleaved with each other, with the clock and with
\* the interval timer that calls searchCache.cleanup()
HandlerNext ==
  \/ (\E h \in Invocations, tool \in SearchTools :
        \E args \in HandlerArgs(tool) : StartSearch(h, tool, args))
       /\ UNCHANGED <<truncVars, keyVars, utilVars, trackerVars, walkVars, suggestVars, metricsVars, fileSearchVars, pairVars>>
  \/ (\E h \in Invocations, m \in Matchers : FinishSearch(h, m))
       /\ UNCHANGED <<truncVars, keyVars, utilVars, trackerVars, walkVars, suggestVars, metricsVars, fileSearchVars, pairVars>>
  \/ (\E h \in Invocations, args \in TreeArgs : StartTree(h, args))
       /\ UNCHANGED <<truncVars, keyVars, utilVars, trackerVars, walkVars, suggestVars, metricsVars, fileSearchVars, pairVars>>
  \/ (\E h \in Invocations, failed \in BOOLEAN : FinishTree(h, failed))
       /\ UNCHANGED <<truncVars, keyVars, utilVars, trackerVars, walkVars, suggestVars, metricsVars, fileSearchVars, pairVars>>
  \/ Tick /\ UNCHANGED <<truncVars, keyVars, handlerVars, utilVars, trackerVars, walkVars, suggestVars, metricsVars, fileSearchVars, pairVars>>
  \/ Cleanup /\ UNCHANGED <<truncVars, keyVars, handlerVars, utilVars, trackerVars, walkVars, suggestVars, metricsVars, fileSearchVars, pairVars>>

HandlerSpec == Init /\ [][HandlerNext]_vars

\* One call of truncateString on every input of the bounded families
StrInit == TruncIdle /\ CacheInit /\ KeyInit /\ HandlerInit /\ StrCallInit /\ TrackerInit /\ WalkIdle /\ SuggestIdle /\ MetricsIdle /\ FileSearchIdle /\ PairIdle

StrNext == TruncateString /\ UNCHANGED <<truncVars, cacheVars, keyVars, handlerVars, trackerVars, walkVars, suggestVars, metricsVars, fileSearchVars, pairVars>>

StrSpec == StrInit /\ [][StrNext]_vars

\* One call of truncateTreeResult on every input of the bounded families
TreeTextInit == TruncIdle /\ CacheInit /\ KeyInit /\ HandlerInit /\ TreeCallInit /\ TrackerInit /\ WalkIdle /\ SuggestIdle /\ MetricsIdle /\ FileSearchIdle /\ PairIdle

TreeTextNext ==
  TruncateTreeResult /\ UNCHANGED <<truncVars, cacheVars, keyVars, handlerVars, trackerVars, walkVars, suggestVars, metricsVars, fileSearchVars, pairVars>>

TreeTextSpec == TreeTextInit /\ [][TreeTextNext]_vars

\* One SymlinkTracker under every sequence of calls
TrackerNext ==
  \/ (\E path \in DOMAIN World : CheckAndMark(path))
       /\ UNCHANGED <<truncVars, cacheVars, keyVars, handlerVars, utilVars, walkVars, suggestVars, metricsVars, fileSearchVars, pairVars>>
  \/ Reset /\ UNCHANGED <<truncVars, cacheVars, keyVars, handlerVars, utilVars, walkVars, suggestVars, metricsVars, fileSearchVars, pairVars>>

TrackerSpec == Init /\ [][TrackerNext]_vars

\* One call of generateZeroResultSuggestions, for every query and tool
SuggestInit ==
  TruncIdle /\ CacheInit /\ KeyInit /\ HandlerInit /\ UtilInit /\ TrackerInit /\ WalkIdle /\ MetricsIdle /\ FileSearchIdle /\ PairIdle
    /\ SugCallInit

SuggestNext ==
  GenerateZeroResultSuggestions
    /\ UNCHANGED <<truncVars, cacheVars, keyVars, handlerVars, utilVars, trackerVars, walkVars, metricsVars, fileSearchVars, pairVars>>

SuggestSpec == SuggestInit /\ [][SuggestNext]_vars

\* One call of analyzeQueryComplexity, for every query
ComplexityInit ==
  TruncIdle /\ CacheInit /\ KeyInit /\ HandlerInit /\ UtilInit /\ TrackerInit /\ WalkIdle /\ MetricsIdle /\ FileSearchIdle /\ PairIdle
    /\ CxCallInit

ComplexityNext ==
  AnalyzeQueryComplexity
    /\ UNCHANGED <<truncVars, cacheVars, keyVars, handlerVars, utilVars, trackerVars, walkVars, metricsVars, fileSearchVars, pairVars>>

ComplexitySpec == ComplexityInit /\ [][ComplexityNext]_vars

\* Two calls of withMetrics and their recordings, interleaved, over a
\* metrics file in any state
MetricsSpecInit ==
  TruncIdle /\ CacheInit /\ KeyInit /\ HandlerInit /\ UtilInit /\ TrackerInit /\ WalkIdle
    /\ SuggestIdle /\ FileSearchIdle /\ PairIdle /\ MetricsInit

MetricsNext ==
  \/ (\E c \in MetricCallers, tool \in SearchTools, params \in MetricParams, exec \in Execs :
        WithMetrics(c, tool, params, exec))
       /\ UNCHANGED <<truncVars, cacheVars, keyVars, handlerVars, utilVars, trackerVars, walkVars, suggestVars, fileSearchVars, pairVars>>
  \/ (\E c \in MetricCallers, readFails \in BOOLEAN : LoadMetrics(c, readFails))
       /\ UNCHANGED <<truncVars, cacheVars, keyVars, handlerVars, utilVars, trackerVars, walkVars, suggestVars, fileSearchVars, pairVars>>
  \/ (\E c \in MetricCallers, fault \in WriteFaults : SaveMetrics(c, fault))
       /\ UNCHANGED <<truncVars, cacheVars, keyVars, handlerVars, utilVars, trackerVars, walkVars, suggestVars, fileSearchVars, pairVars>>

MetricsSpec == MetricsSpecInit /\ [][MetricsNext]_vars

\* One invocation of search_files with its filters, over a cache that is
\* empty or holds another request's result
FileSearchInit ==
  TruncIdle /\ FileSearchCacheInit /\ KeyInit /\ HandlerInit /\ UtilInit /\ TrackerInit
    /\ WalkIdle /\ SuggestIdle /\ MetricsIdle /\ FileSearchIdle /\ PairIdle

FileSearchNext ==
  \/ (\E args \in FilterArgs : StartFileSearch(args))
       /\ UNCHANGED <<truncVars, keyVars, handlerVars, utilVars, trackerVars, walkVars, suggestVars, metricsVars, pairVars>>
  \/ (\E files \in Globs : FinishFileSearch(files))
       /\ UNCHANGED <<truncVars, keyVars, handlerVars, utilVars, trackerVars, walkVars, suggestVars, metricsVars, pairVars>>

FileSearchSpec == FileSearchInit /\ [][FileSearchNext]_vars

\* Two traversals of one file system, interleaved
PairSpecInit ==
  TruncIdle /\ CacheInit /\ KeyInit /\ HandlerInit /\ UtilInit /\ TrackerInit /\ WalkIdle
    /\ SuggestIdle /\ MetricsIdle /\ FileSearchIdle /\ PairInit

PairNext ==
  (\E t \in Traversals : StepOf(t))
    /\ UNCHANGED <<truncVars, cacheVars, keyVars, handlerVars, utilVars, trackerVars, walkVars, suggestVars, metricsVars, fileSearchVars>>

PairSpec == PairSpecInit /\ [][PairNext]_vars

\* One traversal of every file system of the family, for every depth and
\* every setting of the flags
WalkSpecInit ==
  TruncIdle /\ CacheInit /\ KeyInit /\ HandlerInit /\ UtilInit /\ TrackerInit /\ SuggestIdle /\ MetricsIdle /\ FileSearchIdle /\ PairIdle /\ WalkInit

WalkNext ==
  \/ Visit /\ UNCHANGED <<truncVars, cacheVars, keyVars, handlerVars, utilVars, trackerVars, suggestVars, metricsVars, fileSearchVars, pairVars>>
  \/ NextEntry /\ UNCHANGED <<truncVars, cacheVars, keyVars, handlerVars, utilVars, trackerVars, suggestVars, metricsVars, fileSearchVars, pairVars>>
  \/ Descend /\ UNCHANGED <<truncVars, cacheVars, keyVars, handlerVars, utilVars, trackerVars, suggestVars, metricsVars, fileSearchVars, pairVars>>
  \/ Return /\ UNCHANGED <<truncVars, cacheVars, keyVars, handlerVars, utilVars, trackerVars, suggestVars, metricsVars, fileSearchVars, pairVars>>
  \/ Finish /\ UNCHANGED <<truncVars, cacheVars, keyVars, handlerVars, utilVars, trackerVars, suggestVars, metricsVars, fileSearchVars, pairVars>>

WalkSpec == WalkSpecInit /\ [][WalkNext]_vars

\* The traversal is one chain of awaited calls, and the event loop resumes
\* it whenever the file system has answered: it always takes its next step
WalkLiveSpec == WalkSpec /\ WF_vars(WalkNext)

(***************************************************************************)
(* Properties of truncateSearchResults                                     *)
(***************************************************************************)
Returned == truncPc = "returned"

RECURSIVE SumMatchCount(_)
SumMatchCount(fs) ==
  IF fs = <<>> THEN 0 ELSE MatchCount(Head(fs)) + SumMatchCount(Tail(fs))

\* The serialized size of the whole input in its envelope, nothing cut
FullInputSize ==
  JsonResult([files |-> inFiles, totalMatches |-> SumMatchCount(inFiles),
              truncated |-> FALSE, searchTime |-> inSearchTime,
              reasoning |-> inReasoning])

\* The entries the selection phase accepted
Accepted == Selection(inFiles, inReasoning, inSearchTime).files

\* C1: the serialized size of every result truncateSearchResults returns is
\* at most MAX_CHARS.
C1_BudgetInvariant == Returned => JsonResult(result) <= MAX_CHARS

\* C2, as stated: an input whose serialized size in its envelope is at most
\* MAX_CHARS comes back untruncated, every entry in order and unmodified.
C2_NoSpuriousTruncation_Budget ==
  (Returned /\ FullInputSize <= MAX_CHARS) =>
     (~result.truncated /\ result.files = inFiles)

\* C2, amended: an input whose serialized size in its envelope is at most
\* MAX_CHARS - 1000 (budget minus reserve) comes back untruncated, every
\* entry in order and unmodified.
C2_NoSpuriousTruncation ==
  (Returned /\ FullInputSize <= MAX_CHARS - 1000) =>
     (~result.truncated /\ result.files = inFiles)

\* Two large entries with some smaller one, together just under the reserve line
C2_Witness ==
  /\ Returned
  /\ Len(inFiles) = 3
  /\ FullInputSize <= MAX_CHARS - 1000
  /\ FullInputSize > MAX_CHARS - 2000
  /\ result.files = inFiles

\* An entry of the degraded half has at most 3 matches, none with a context,
\* and no preview
Degraded(f) ==
  /\ "preview" \notin DOMAIN f
  /\ "matches" \in DOMAIN f =>
       /\ Len(f.matches) <= 3
       /\ \A j \in 1..Len(f.matches) : "context" \notin DOMAIN f.matches[j]

\* C3: when the result is truncated, every returned entry at (0-based) index
\* >= floor(count/2) has at most 3 matches, no context on any match and no
\* preview.
C3_DegradeMonotonicity ==
  (Returned /\ result.truncated) =>
     \A i \in 1..Len(result.files) :
        (i - 1 >= Len(result.files) \div 2) => Degraded(result.files[i])

\* A truncated result whose second half held an entry with 5 matches, contexts
\* and a preview, at the midpoint itself
C3_Witness ==
  /\ Returned
  /\ result.truncated
  /\ Len(result.files) = 2
  /\ inFiles[2] = Rich
  /\ ~Degraded(inFiles[2])

\* C4: the degrade phase removes no accepted entry and no entry is larger,
\* serialized, after it than when it was accepted.
C4_DegradeOnlyShrinks ==
  Returned =>
     /\ Len(result.files) = Len(Accepted)
     /\ \A i \in 1..Len(result.files) :
           JsonFile(result.files[i]) <= JsonFile(Accepted[i])

\* C21: totalMatches is the sum, over the entries the selection accepted and
\* not over those cut off, of the number of matches of the entry as it came
\* in, an entry without matches counting 1.
C21_TotalMatchCount ==
  Returned =>
     result.totalMatches = SumMatchCount(SubSeq(inFiles, 1, Len(result.files)))

\* A bare hit and an entry with 5 matches were accepted and a third entry was
\* cut off: the count is 6, though the degrade phase left 3 matches
C21_Witness ==
  /\ Returned
  /\ result.truncated
  /\ inFiles = <<NoMatches, Rich, HugePreview>>
  /\ Len(result.files) = 2
  /\ Len(result.files[2].matches) = 3
  /\ result.totalMatches = 6

\* The estimate the selection starts from: the result with no entries
EnvelopeSize ==
  JsonResult([files |-> <<>>, totalMatches |-> 0, truncated |-> FALSE,
              searchTime |-> inSearchTime, reasoning |-> inReasoning])

\* The first k entries of the input, added to the starting estimate, stay
\* within budget - reserve
PrefixWithinReserve(k) ==
  EnvelopeSize + SumJsonFile(SubSeq(inFiles, 1, k)) <= MAX_CHARS - 1000

\* The number of entries before the first one that would exceed the limit
StopIndex ==
  CHOOSE k \in 0..Len(inFiles) :
    /\ \A j \in 1..k : PrefixWithinReserve(j)
    /\ k < Len(inFiles) => ~PrefixWithinReserve(k + 1)

\* C30: the selection accepts the input entries before the first one whose
\* size added to the running estimate would exceed budget - reserve, in
\* input order, and none after it; the result holds one entry for each, and
\* truncated is set exactly when these are fewer than the input entries.
C30_SelectionPrefix ==
  Returned =>
     /\ Accepted = SubSeq(inFiles, 1, StopIndex)
     /\ Len(result.files) = StopIndex
     /\ result.truncated <=> StopIndex < Len(inFiles)

\* The second entry did not fit and the third, a small one, would have: the
\* result holds the first entry only
C30_Witness ==
  /\ Returned
  /\ Len(inFiles) = 3
  /\ inFiles[2] = HugePreview
  /\ inFiles[3] = PathOnly
  /\ EnvelopeSize + JsonFile(inFiles[1]) + JsonFile(inFiles[3]) <= MAX_CHARS - 1000
  /\ Len(result.files) = 1
  /\ result.truncated

\* C31: every returned entry at a (0-based) index below floor(count/2) is
\* the input entry at that index with every field as it came in, and an
\* entry comes back changed only in a truncated result.
C31_FirstHalfUntouched ==
  Returned =>
     /\ \A i \in 1..Len(result.files) :
           (i - 1 < Len(result.files) \div 2) => result.files[i] = inFiles[i]
     /\ (result.files # Accepted) => (result.truncated /\ Len(Accepted) > 0)

\* Two entries with 5 matches, contexts and a preview were accepted and a
\* third was cut off: the first comes back as it was, the second degraded
C31_Witness ==
  /\ Returned
  /\ result.truncated
  /\ inFiles = <<Rich, Rich, HugePreview>>
  /\ Len(result.files) = 2
  /\ result.files[1] = Rich
  /\ result.files[2] = DegradeFile(Rich)
  /\ result.files[2] # Rich

\* C35: totalMatches equals the sum, over the returned entries as they are
\* returned, of the number of matches of the entry, an entry without matches
\* counting 1.
C35_CountMatchesReturned ==
  Returned => result.totalMatches = SumMatchCount(result.files)

\* In a result that is not truncated, totalMatches is the sum over the
\* returned entries
CountMatchesReturned_Untruncated ==
  (Returned /\ ~result.truncated) => result.totalMatches = SumMatchCount(result.files)

\* A truncated result whose one entry had 5 matches coming in and goes out
\* with 3, under a totalMatches of 5
CountExceedsReturned ==
  /\ Returned
  /\ result.truncated
  /\ inFiles[1] = Rich
  /\ Len(result.files) = 1
  /\ Len(result.files[1].matches) = 3
  /\ result.totalMatches = 5


(***************************************************************************)
(* Properties of QueryCache                                                *)
(***************************************************************************)

\* C5: after set(k, v) at time T with no later set, eviction or clear of k,
\* get(k) at time t returns v when t - T <= ttlMs and undefined when
\* t - T > ttlMs; and once get(k) has returned undefined it returns undefined
\* until the next set of k.
C5_TtlCorrectness ==
  lastOp.op = "get" =>
     LET l == live[lastOp.key]
     IN  /\ l.set => lastOp.ret = (IF now - l.t <= ttlMs THEN l.v ELSE Undefined)
         /\ sawAbsent[lastOp.key] => lastOp.ret = Undefined

\* A get that found its key set, never evicted, and expired
C5_Witness ==
  /\ lastOp.op = "get"
  /\ live[lastOp.key].set
  /\ now - live[lastOp.key].t > ttlMs
  /\ lastOp.ret = Undefined

\* C6: a set of a key that is not in the cache, when the cache is full,
\* removes exactly one entry, one whose timestamp is the smallest, and leaves
\* every other entry as it was.
C6_Eviction ==
  [][\A key \in Keys, value \in Values :
       (/\ Len(qcache.cache) = maxSize
        /\ key \notin KeysIn(qcache.cache)
        /\ Set(key, value))
       => \E i \in 1..Len(qcache.cache) :
            /\ \A j \in 1..Len(qcache.cache) :
                  qcache.cache[i].timestamp <= qcache.cache[j].timestamp
            /\ KeysIn(qcache'.cache) = (KeysIn(qcache.cache) \ {qcache.cache[i].key}) \cup {key}
            /\ \A j \in 1..Len(qcache.cache) :
                  j # i => qcache'.cache[IndexOf(qcache'.cache, qcache.cache[j].key)]
                             = qcache.cache[j]]_vars

\* A set of a new key into a full cache whose entries had different
\* timestamps: one key went
C6_Witness ==
  /\ lastOp.op = "set"
  /\ lastOp.fresh
  /\ Cardinality(lastOp.evicted) = 1
  /\ Len(qcache.cache) = maxSize
  /\ \E i, j \in 1..Len(qcache.cache) :
        qcache.cache[i].timestamp # qcache.cache[j].timestamp

\* C33: the Map never holds more than maxSize entries, whatever the calls.
C33_CapacityBound == Len(qcache.cache) <= maxSize

\* A set of a key the cache did not hold has put it last in a Map that was
\* full already, and the Map is no larger than before
C33_Witness ==
  /\ lastOp.op = "set"
  /\ lastOp.fresh
  /\ lastOp.evicted # {}
  /\ Len(qcache.cache) = maxSize
  /\ qcache.cache[maxSize].key = lastOp.key
  /\ qcache.cache[maxSize].timestamp = now

\* The effect of set(key, value) on a key the Map holds: its entry is the
\* new value, stamped now, with no hits, and the entries in `others` are
\* still there as they were
Replaces(key, value, others) ==
  /\ IndexOf(qcache'.cache, key) # 0
  /\ qcache'.cache[IndexOf(qcache'.cache, key)] =
        [key |-> key, value |-> value, timestamp |-> now, hits |-> 0]
  /\ \A j \in others :
        /\ IndexOf(qcache'.cache, qcache.cache[j].key) # 0
        /\ qcache'.cache[IndexOf(qcache'.cache, qcache.cache[j].key)] = qcache.cache[j]

\* The positions of the entries of the Map under a key other than `key`
OtherEntries(key) == {j \in 1..Len(qcache.cache) : qcache.cache[j].key # key}

\* C34: a set of a key that is in the cache replaces its value, stamps it
\* now, zeroes its hits and leaves every other entry in the cache, at
\* capacity too.
C34_SetExistingKeepsOthers ==
  [][\A key \in Keys, value \in Values :
       (key \in KeysIn(qcache.cache) /\ Set(key, value))
       => Replaces(key, value, OtherEntries(key))]_vars

\* Below capacity, a set of a key that is in the cache leaves every other
\* entry in the cache
SetExistingBelowCapacity ==
  [][\A key \in Keys, value \in Values :
       (key \in KeysIn(qcache.cache) /\ Len(qcache.cache) < maxSize /\ Set(key, value))
       => Replaces(key, value, OtherEntries(key))]_vars

\* A set of a key the full cache held has removed another key
SetExistingEvicted ==
  /\ lastOp.op = "set"
  /\ ~lastOp.fresh
  /\ lastOp.evicted # {}
  /\ lastOp.key \notin lastOp.evicted
  /\ Len(qcache.cache) = maxSize - 1

\* C15: hits + misses is the number of get calls since construction or the
\* last clear, hits is the number of those that returned a value, and a has,
\* a set or a cleanup changes neither counter.
C15_CacheCounters ==
  /\ [](/\ qcache.hits + qcache.misses = getCalls.n
        /\ qcache.hits = getCalls.returned)
  /\ [][lastOp'.op \in {"has", "set", "cleanup"}
          => (qcache'.hits = qcache.hits /\ qcache'.misses = qcache.misses)]_vars

\* A has after two gets, one that returned a value and one that did not
C15_Witness ==
  /\ lastOp.op = "has"
  /\ getCalls.n = 2
  /\ getCalls.returned = 1
  /\ qcache.hits = 1
  /\ qcache.misses = 1

\* C16: cleanup at time now removes exactly the entries with
\* now - timestamp > ttlMs, leaves every other entry as it was, and returns
\* the number of entries it removed.
C16_Cleanup ==
  [][lastOp'.op = "cleanup" =>
       LET c     == qcache.cache
           stale == {i \in 1..Len(c) : now - c[i].timestamp > ttlMs}
       IN  /\ \A i \in stale : c[i].key \notin KeysIn(qcache'.cache)
           /\ \A i \in (1..Len(c)) \ stale :
                 \E j \in 1..Len(qcache'.cache) : qcache'.cache[j] = c[i]
           /\ Len(qcache'.cache) = Len(c) - Cardinality(stale)
           /\ lastOp'.removed = Cardinality(stale)]_vars

\* A cleanup that removed an entry and kept another
C16_Witness ==
  /\ lastOp.op = "cleanup"
  /\ lastOp.removed = 1
  /\ Len(qcache.cache) = 1
  /\ now - qcache.cache[1].timestamp = ttlMs

\* C17: a get that returns a value changes the hit count of its entry and
\* the global hit counter and nothing else, the entry's timestamp least of
\* all; so an entry that was hit expires at the same time as one that was
\* not, and is the one evicted when its timestamp is the smallest.
C17_HitsOnlyCount ==
  [][LET c == qcache.cache
     IN  /\ (lastOp'.op = "get" /\ lastOp'.ret # Undefined) =>
               /\ Len(qcache'.cache) = Len(c)
               /\ \A i \in 1..Len(c) :
                     qcache'.cache[i] =
                       [c[i] EXCEPT !.hits = @ + (IF c[i].key = lastOp'.key THEN 1 ELSE 0)]
               /\ qcache'.hits = qcache.hits + 1
               /\ qcache'.misses = qcache.misses
         /\ lastOp'.op = "get" =>
               \A i \in 1..Len(c) :
                 (c[i].key = lastOp'.key /\ now - c[i].timestamp > ttlMs)
                   => lastOp'.ret = Undefined
         /\ (lastOp'.op = "set" /\ lastOp'.fresh /\ Len(c) = maxSize) =>
               \A i \in 1..Len(c) :
                 c[i].key \in lastOp'.evicted
                   => \A j \in 1..Len(c) : c[i].timestamp <= c[j].timestamp]_vars

\* A get returned the value of an entry set earlier: the entry has its hit
\* and the timestamp of its set
C17_Witness ==
  /\ lastOp.op = "get"
  /\ lastOp.ret # Undefined
  /\ \E i \in 1..Len(qcache.cache) :
        /\ qcache.cache[i].key = lastOp.key
        /\ qcache.cache[i].hits >= 1
        /\ qcache.cache[i].timestamp < now

(***************************************************************************)
(* Properties of QueryCache.generateKey                                    *)
(***************************************************************************)
BothCalled == call1 # NoCall /\ call2 # NoCall

\* The properties of a parameter object other than reasoning, as a set
Relevant(params) ==
  {params[i] : i \in {j \in 1..Len(params) : params[j].name # "reasoning"}}

\* C7: for every tool name, two parameter objects that differ only in the
\* order of their fields, or in the value or the presence of the reasoning
\* field, get the same key from generateKey.
C7_KeyStability ==
  (/\ BothCalled
   /\ call1.tool = call2.tool
   /\ Relevant(call1.params) = Relevant(call2.params))
  => call1.key = call2.key

\* Two calls with the same two fields in opposite orders, the first with a
\* reasoning and the second without, and one key
C7_Witness ==
  /\ BothCalled
  /\ call1.tool = call2.tool
  /\ Relevant(call1.params) = Relevant(call2.params)
  /\ Cardinality(Relevant(call1.params)) = 2
  /\ Rest(call1.params) # Rest(call2.params)
  /\ HasOwn(call1.params, "reasoning")
  /\ ~HasOwn(call2.params, "reasoning")
  /\ call1.key = call2.key

\* C8: two calls of generateKey that differ in the tool name, or in the
\* value of a field other than reasoning (a string, a number, a boolean or a
\* list of strings), get different keys.
C8_KeyDistinctness ==
  (/\ BothCalled
   /\ \/ call1.tool # call2.tool
      \/ Relevant(call1.params) # Relevant(call2.params))
  => call1.key # call2.key

\* Two calls of one tool on one field, whose values are two different lists
\* of strings, and two keys
C8_Witness ==
  /\ BothCalled
  /\ call1.tool = call2.tool
  /\ \E p \in Relevant(call1.params), q \in Relevant(call2.params) :
       /\ Relevant(call1.params) = {p}
       /\ Relevant(call2.params) = {q}
       /\ p.name = q.name
       /\ p.value.type = "list"
       /\ q.value.type = "list"
       /\ p.value # q.value
  /\ call1.key # call2.key

(***************************************************************************)
(* Properties of the tool handlers                                         *)
(***************************************************************************)
\* Every value in the shared cache is a result with at least one entry
CachedAreNonEmpty ==
  \A i \in 1..Len(qcache.cache) : Len(qcache.cache[i].value.files) > 0

\* The search handlers that have returned after a failed search or with a
\* result of zero entries
Fruitless ==
  {h \in Invocations :
     /\ handlers[h].tool \in SearchTools
     /\ handlers[h].pc = "done"
     /\ handlers[h].outcome \in {"failed", "empty"}}

\* C9 as stated: every value in the shared cache has at least one entry, and
\* a handler whose search failed or returned zero entries has left the
\* cache's entries unchanged.
C9_FruitlessLeavesEntries ==
  /\ CachedAreNonEmpty
  /\ \A h \in Fruitless : ~handlers[h].touched

\* C9, amended: every value in the shared cache has at least one entry, and
\* a handler whose search failed or returned zero entries has stored nothing;
\* the one change it can have made to the entries is the removal, by its
\* cache lookup, of an expired entry under its own key.
C9_FruitlessStoresNothing ==
  /\ CachedAreNonEmpty
  /\ \A h \in Fruitless :
       /\ ~handlers[h].stored
       /\ handlers[h].touched => handlers[h].dropped # {}
       /\ \A e \in handlers[h].dropped :
            e.key = handlers[h].key /\ e.age > ttlMs

\* A handler has returned with zero entries or a failure while the cache
\* holds the result of another
C9_Witness ==
  /\ Fruitless # {}
  /\ Len(qcache.cache) > 0
  /\ \A h \in Fruitless : ~handlers[h].stored

\* What C10 asks of an invocation: its search or traversal has run only
\* after the cache was asked and held no fresh entry, and when the cache
\* held a fresh entry the invocation has returned it and run nothing
CacheFirst(h) ==
  LET me == handlers[h]
  IN  /\ me.ran => (me.asked /\ ~me.fresh)
      /\ me.fresh => (me.pc = "done" /\ me.ret = me.freshValue /\ ~me.ran)

\* C10 as stated: every tool-level operation, tree included, asks the cache
\* before it runs its matcher or traversal, and returns the fresh entry of
\* its key without running it.
C10_CacheFirst_EveryTool == \A h \in Invocations : CacheFirst(h)

\* C10, amended: file search, content search and fuzzy search ask the cache
\* before they run their matcher, and return the fresh entry of their key
\* without running it; tree never asks the cache and always runs its
\* traversal.
C10_CacheFirst ==
  \A h \in Invocations :
    /\ handlers[h].tool \in SearchTools => CacheFirst(h)
    /\ handlers[h].tool = "tree" => (~handlers[h].asked /\ handlers[h].ran)

\* A search handler found a fresh entry under its key and returned it
C10_Witness ==
  \E h \in Invocations :
    /\ handlers[h].tool \in SearchTools
    /\ handlers[h].fresh
    /\ handlers[h].pc = "done"
    /\ handlers[h].outcome = "cached"
    /\ handlers[h].ret = handlers[h].freshValue
    /\ ~handlers[h].ran

\* Invocation h of a cached search tool is suspended in its matcher
InMatcher(h) ==
  /\ handlers[h].pc = "searching"
  /\ handlers[h].tool \in {"search_files", "search_content"}

\* C37: no two invocations with one cache key are in their matcher at once:
\* an invocation that starts while another one with its key is suspended in
\* the matcher does not start a second run.
C37_SingleFlight ==
  \A g, h \in Invocations :
    (g # h /\ InMatcher(g) /\ InMatcher(h)) => handlers[g].key # handlers[h].key

\* Two invocations with one key have both missed the cache and run the
\* matcher, the second before the first had stored its result, and both
\* have stored what they found
TwoRunsOfOneKey ==
  /\ \A h \in Invocations :
        /\ handlers[h].pc = "done"
        /\ handlers[h].tool = "search_content"
        /\ handlers[h].ran
        /\ ~handlers[h].fresh
        /\ handlers[h].outcome = "found"
        /\ handlers[h].stored
  /\ handlers["h1"].key = handlers["h2"].key
  /\ now = 0

(***************************************************************************)
(* Properties of truncateString and truncateTreeResult                     *)
(***************************************************************************)
Ellipsis3 == <<".", ".", ".">>

\* C18: truncateString(str, maxLength) returns str when its length is at
\* most maxLength; otherwise, for every maxLength, the first maxLength - 3
\* characters of str followed by the three-character ellipsis, maxLength
\* characters in all.
C18_TruncateString ==
  strCall.pc = "returned" =>
    IF Len(strCall.str) <= strCall.maxLength
    THEN strCall.ret = strCall.str
    ELSE /\ strCall.ret = SubSeq(strCall.str, 1, strCall.maxLength - 3) \o Ellipsis3
         /\ Len(strCall.ret) = strCall.maxLength

\* The limit of truncateTreeResult: budget - reserve
TreeLimit == MAX_CHARS - 1000

\* C19: truncateTreeResult returns a text of at most MAX_CHARS - 1000
\* characters, says it truncated exactly when the input text is longer than
\* that, and otherwise returns the input text as it is.
C19_TreeBudget ==
  treeCall.pc = "returned" =>
    /\ TextLen(treeCall.ret.tree) <= TreeLimit
    /\ treeCall.ret.truncated <=> TextLen(treeCall.tree) > TreeLimit
    /\ ~treeCall.ret.truncated => treeCall.ret.tree = treeCall.tree

\* A text over the limit came back cut, with lines of it kept
C19_Witness ==
  /\ treeCall.pc = "returned"
  /\ TextLen(treeCall.tree) > TreeLimit
  /\ treeCall.ret.truncated
  /\ Len(treeCall.ret.tree) >= 2
  /\ treeCall.ret.tree[1] = treeCall.tree[1]
  /\ TextLen(treeCall.ret.tree) <= TreeLimit

\* The first k lines of the input fit when each of them, in turn, can be
\* added to the lines before it: the running total plus the line, plus
\* `extra`, stays within `limit`
PrefixFits(k, limit, extra) ==
  \A i \in 1..k :
    TextLen(SubSeq(treeCall.tree, 1, i - 1)) + treeCall.tree[i].len + extra <= limit

\* The text made of the longest prefix of input lines that fits, followed by
\* the marker line; when no line fits, of an empty line and the marker line
LongestPrefixAndMarker(limit, extra) ==
  LET k == CHOOSE j \in 0..Len(treeCall.tree) :
             /\ PrefixFits(j, limit, extra)
             /\ \A j2 \in (j + 1)..Len(treeCall.tree) : ~PrefixFits(j2, limit, extra)
  IN  (IF k = 0 THEN <<Line(0)>> ELSE SubSeq(treeCall.tree, 1, k)) \o <<MarkerLine>>

\* C20 as stated: when truncateTreeResult truncates, the text it returns is
\* the longest prefix of whole input lines whose running total stays within
\* MAX_CHARS - 1000, followed by the marker line.
C20_LongestPrefix_Budget ==
  (treeCall.pc = "returned" /\ treeCall.ret.truncated)
    => treeCall.ret.tree = LongestPrefixAndMarker(TreeLimit, 0)

\* C20, amended: the limit of the prefix is MAX_CHARS - 1100, and a line is
\* accepted unless the running total plus the line plus 1 would exceed it.
C20_LongestPrefix ==
  (treeCall.pc = "returned" /\ treeCall.ret.truncated)
    => treeCall.ret.tree = LongestPrefixAndMarker(TreeLimit - 100, 1)

\* A truncated text that kept two whole lines and dropped the third
C20_Witness ==
  /\ treeCall.pc = "returned"
  /\ treeCall.ret.truncated
  /\ Len(treeCall.tree) = 3
  /\ treeCall.ret.tree = SubSeq(treeCall.tree, 1, 2) \o <<MarkerLine>>

(***************************************************************************)
(* Properties of SymlinkTracker                                            *)
(***************************************************************************)
\* What the file system answers for the path of the i-th call
Seen(i) == World[checks[i].path]

\* Calls i and j ran with no reset between them
SameEpoch(i, j) == checks[i].epoch = checks[j].epoch

\* Calls i and j resolved to one device:inode identity
SameIdentity(i, j) == Seen(i).ok /\ Seen(j).ok /\ Seen(i).ino = Seen(j).ino

\* Call i is the first since the last reset to resolve to its identity
FirstOfIdentity(i) ==
  Seen(i).ok /\ \A k \in 1..(i - 1) : ~(SameEpoch(k, i) /\ SameIdentity(k, i))

\* C11: with no reset in between, checkAndMark returns true at most once per
\* device:inode identity: the first call that resolves to an identity returns
\* true when the path is not a link, and every later call that resolves to
\* the same identity returns false.
C11_LoopDetection ==
  \A i \in 1..Len(checks) :
    /\ (FirstOfIdentity(i) /\ ~Seen(i).link) => checks[i].ret
    /\ (Seen(i).ok /\ ~FirstOfIdentity(i)) => ~checks[i].ret
    /\ \A j \in (i + 1)..Len(checks) :
         (SameEpoch(i, j) /\ SameIdentity(i, j)) => ~(checks[i].ret /\ checks[j].ret)

\* A directory was checked and found safe, then reached again by another
\* path and refused
C11_Witness ==
  /\ Len(checks) >= 2
  /\ checks[1].path = "/t"
  /\ checks[1].ret
  /\ checks[2].path = "/t/."
  /\ ~checks[2].ret
  /\ SameEpoch(1, 2)

\* Two paths are distinct links to one real path
Converging(p, q) ==
  /\ World[p].ok /\ World[q].ok
  /\ World[p].link /\ World[q].link
  /\ World[p].ino # World[q].ino
  /\ World[p].realOk /\ World[q].realOk
  /\ World[p].real = World[q].real

\* Call i is the first call on p or on q
FirstOnEither(i, p, q) ==
  /\ checks[i].path \in {p, q}
  /\ \A k \in 1..(i - 1) : checks[k].path \notin {p, q}

\* C12 as stated: of two distinct links to one real path, the first
\* checkAndMark on one of them returns true and a later checkAndMark on the
\* other returns false.
C12_ConvergingLinks_AnyHistory ==
  \A p, q \in DOMAIN World :
    Converging(p, q) =>
      \A i \in 1..Len(checks) :
        FirstOnEither(i, p, q) =>
          /\ checks[i].ret
          /\ \A j \in (i + 1)..Len(checks) :
               (checks[j].path \in {p, q} /\ checks[j].path # checks[i].path)
                 => ~checks[j].ret

\* Call k recorded, for the rest of its epoch, the identity or the real path
\* that call i came with
Preempts(k, i) ==
  /\ SameEpoch(k, i)
  /\ Seen(k).ok
  /\ \/ Seen(k).ino = Seen(i).ino
     \/ Seen(k).link /\ Seen(k).realOk /\ Seen(k).real = Seen(i).real

\* C12, amended: of two distinct links to one real path, with no reset in
\* between, a checkAndMark on one after a checkAndMark on the other returns
\* false; and the first of the two returns true when no earlier call since
\* the last reset came with its identity or with a link to its real path.
C12_ConvergingLinks ==
  \A i \in 1..Len(checks) :
    \A j \in (i + 1)..Len(checks) :
      (Converging(checks[i].path, checks[j].path) /\ SameEpoch(i, j)) =>
        /\ ~checks[j].ret
        /\ (\A k \in 1..(i - 1) : ~Preempts(k, i)) => checks[i].ret

\* One link to /t was found safe, the next link to /t was refused
C12_Witness ==
  /\ Len(checks) >= 2
  /\ checks[1].path = "/l1"
  /\ checks[1].ret
  /\ checks[2].path = "/l2"
  /\ ~checks[2].ret
  /\ SameEpoch(1, 2)

\* C13: checkAndMark never throws, and returns false when lstat fails or
\* when the path is a link whose real path cannot be resolved.
C13_NeverRaises ==
  \A i \in 1..Len(checks) :
    /\ ~checks[i].threw
    /\ (~Seen(i).ok \/ (Seen(i).link /\ ~Seen(i).realOk)) => ~checks[i].ret

\* A path that is not there and a dangling link were both refused
C13_Witness ==
  \E i, j \in 1..Len(checks) :
    /\ checks[i].path = "/gone"
    /\ ~checks[i].ret
    /\ ~checks[i].threw
    /\ checks[j].path = "/dangling"
    /\ ~checks[j].ret
    /\ ~checks[j].threw

\* Calls i and j came to one underlying directory: both resolved, to one
\* real path
SameDirectory(i, j) ==
  /\ Seen(i).ok /\ Seen(j).ok
  /\ Seen(i).realOk /\ Seen(j).realOk
  /\ Seen(i).real = Seen(j).real

\* C36: with no reset in between, checkAndMark returns true for at most one
\* of the paths that lead to one underlying directory, a link counting as
\* the directory it resolves to: once it has returned true for a directory,
\* it returns false for a link whose real path is that directory.
C36_LinkToVisitedRefused ==
  \A i \in 1..Len(checks) : \A j \in (i + 1)..Len(checks) :
    (SameEpoch(i, j) /\ SameDirectory(i, j)) => ~(checks[i].ret /\ checks[j].ret)

\* The directory /t was checked and found safe, and the link /l1 to it was
\* then found safe too
LinkToVisitedAccepted ==
  /\ Len(checks) >= 2
  /\ checks[1].path = "/t"
  /\ checks[1].ret
  /\ checks[2].path = "/l1"
  /\ checks[2].ret
  /\ SameEpoch(1, 2)
  /\ World["/l1"].real = World["/t"].real

(***************************************************************************)
(* Properties of the tree traversal                                        *)
(***************************************************************************)
\* C14: the traversal terminates, on file systems with cycles too, and lists
\* the children of no directory identity more than once.
C14_WalkTerminates ==
  /\ <>(walk.pc = "done")
  /\ [](\A i \in Identities : walk.listed[i] <= 1)

\* The traversal terminates
WalkTerminates == <>(walk.pc = "done")

\* A traversal whose root path is not a link lists no directory identity
\* more than once
ListedOnceFromDirectory ==
  walk.fs.nodes[walk.fs.root].kind = "dir" => \A i \in Identities : walk.listed[i] <= 1

\* A traversal of the directory mounted under itself has ended: the tracker
\* refused the directory when it came up again, after one listing
BindCycleRefused ==
  /\ walk.pc = "done"
  /\ walk.fs = BindFs
  /\ walk.refused >= 1
  /\ walk.listed["2:1"] = 1
  /\ walk.listed["2:2"] = 1

\* The directory at node n, entered now with the tracker as it is, would be
\* refused by the tracker or fail in readdir
Unenterable(w, n) ==
  \/ ~checkAndMark(w.tracker, Stat(w.fs, n)).ret
  \/ ~Readable(w.fs, n)

\* The step calls buildTree for a directory entry, within the depth limit
Descends ==
  /\ Len(walk'.stack) = Len(walk.stack) + 1
  /\ TopOf(walk').depth <= walk.depth

\* C32: a directory the tracker reports unsafe, or that cannot be read, adds
\* nothing to the counts: the step that comes to it leaves totalDirs and
\* totalFiles as they were, and so does the call of buildTree for it.
C32_SkippedAddsNothing ==
  /\ [][(Descends /\ Unenterable(walk, TopOf(walk').node)) =>
          (walk'.totalDirs = walk.totalDirs /\ walk'.totalFiles = walk.totalFiles)]_vars
  /\ [][(walk.pc = "walking" /\ walk.stack # <<>> /\ Top.phase = "enter"
           /\ Top.depth <= walk.depth /\ Unenterable(walk, Top.node)) =>
          (walk'.totalDirs = walk.totalDirs /\ walk'.totalFiles = walk.totalFiles
             /\ walk'.stack = Pop(walk.stack))]_vars

\* The call of buildTree for a directory that is unsafe or cannot be read
\* returns at once, with the counts as they were when it was called
SkippedCallAddsNothing ==
  [][(walk.pc = "walking" /\ walk.stack # <<>> /\ Top.phase = "enter"
        /\ Top.depth <= walk.depth /\ Unenterable(walk, Top.node)) =>
       (walk'.totalDirs = walk.totalDirs /\ walk'.totalFiles = walk.totalFiles
          /\ walk'.stack = Pop(walk.stack))]_vars

\* The traversal of the project has ended: the directory that cannot be read
\* shows in the tree with nothing under it, and totalDirs has counted it
UnreadableCounted ==
  /\ walk.pc = "done"
  /\ walk.fs = PlainFs
  /\ walk.depth = 2
  /\ ~walk.include_hidden
  /\ walk.listed["1:6"] = 0
  /\ \E i \in 1..Len(walk.tree) : walk.tree[i].name = "locked"
  /\ \A i \in 1..Len(walk.tree) : walk.tree[i].name # "secret"
  /\ walk.totalDirs = 3

(***************************************************************************)
(* Properties of the suggestions                                           *)
(***************************************************************************)
\* The trimmed parts of the query between its '|'
TrimmedParts(query) ==
  {Trim(part) : part \in Range(Split(query, "|"))}

\* C22: for the content search and a query that contains '|', the answer
\* holds a `simplified` suggestion whose suggestedQuery is one of the trimmed
\* parts, and no part is strictly shorter than it.
C22_ShortestAlternative ==
  (sugCall.pc = "returned" /\ sugCall.tool = "search_content"
     /\ Includes(sugCall.query, <<"|">>)) =>
    \E i \in 1..Len(sugCall.ret) :
       /\ sugCall.ret[i].type = "simplified"
       /\ sugCall.ret[i].suggestedQuery \in TrimmedParts(sugCall.query)
       /\ \A part \in TrimmedParts(sugCall.query) :
            Len(part) >= Len(sugCall.ret[i].suggestedQuery)

\* The example of the specification: "foo" of "foo|barlong|bazz"
C22_Witness ==
  /\ sugCall.pc = "returned"
  /\ sugCall.tool = "search_content"
  /\ sugCall.query = <<"f", "o", "o", "|", "b", "a", "r", "l", "o", "n", "g", "|",
                       "b", "a", "z", "z">>
  /\ sugCall.ret[1].type = "simplified"
  /\ sugCall.ret[1].suggestedQuery = <<"f", "o", "o">>

\* The suggestions of an answer other than the generic hint
Specific == SelectSeq(sugCall.ret, LAMBDA g : g # GenericHint)

\* C23: the answer is never empty; it is the generic hint alone when no
\* heuristic of the tool produced a suggestion, as always for fuzzy_find, and
\* holds no generic hint when one did.
C23_GenericHint ==
  sugCall.pc = "returned" =>
    /\ Len(sugCall.ret) > 0
    /\ IF (sugCall.tool = "search_content" /\ ContentSuggestions(sugCall.query) # <<>>)
          \/ (sugCall.tool = "search_files" /\ FileSuggestions(sugCall.query) # <<>>)
       THEN Specific = sugCall.ret
       ELSE sugCall.ret = <<GenericHint>>
    /\ sugCall.tool = "fuzzy_find" => sugCall.ret = <<GenericHint>>

\* A content search that no heuristic has anything to say about, and a file
\* search with a path in its pattern
C23_Witness ==
  /\ sugCall.pc = "returned"
  /\ sugCall.tool = "search_files"
  /\ sugCall.query = <<"a", "/", "a">>
  /\ sugCall.ret = <<GenericHint>>

\* The pairs of parentheses of a query that match: open is the number of
\* '(' not closed yet
RECURSIVE MatchedPairs(_, _)
MatchedPairs(s, open) ==
  IF s = <<>> THEN 0
  ELSE IF Head(s) = "(" THEN MatchedPairs(Tail(s), open + 1)
  ELSE IF Head(s) = ")" /\ open > 0 THEN 1 + MatchedPairs(Tail(s), open - 1)
  ELSE MatchedPairs(Tail(s), open)

\* The score as counted: alternations, wildcards, parenthesized groups and
\* character classes
Score(query) ==
  CountChars(query, {"|"}) + CountWildcards(query) + MatchedPairs(query, 0)
    + CountCharClasses(query, 1)

\* The level the score stands for
LevelOfScore(query) ==
  IF Score(query) = 0 THEN "simple"
  ELSE IF Score(query) <= 3 THEN "moderate" ELSE "complex"

\* C24: the level is simple for a score of 0, moderate for 1..3 and complex,
\* with the hint to split the query, above 3, for every query, those with
\* unbalanced parentheses too.
C24_ComplexityLevel ==
  cxCall.pc = "returned" =>
    /\ cxCall.ret.complexity = LevelOfScore(cxCall.query)
    /\ cxCall.ret.complexity = "complex"
         <=> \E i \in 1..Len(cxCall.ret.hints) :
                cxCall.ret.hints[i] = "Complex regex may be slow"

\* The same, for the queries whose parentheses all match
ComplexityLevel_Balanced ==
  (cxCall.pc = "returned"
     /\ CountChars(cxCall.query, {"(", ")"}) = 2 * MatchedPairs(cxCall.query, 0)) =>
    /\ cxCall.ret.complexity = LevelOfScore(cxCall.query)
    /\ cxCall.ret.complexity = "complex"
         <=> \E i \in 1..Len(cxCall.ret.hints) :
                cxCall.ret.hints[i] = "Complex regex may be slow"

(***************************************************************************)
(* Properties of the handlers: failures                                    *)
(***************************************************************************)
\* The content searches that have ended after their matcher found no
\* executable
ContentFailures ==
  {h \in Invocations : handlers[h].pc = "done" /\ handlers[h].tool = "search_content"
                         /\ handlers[h].outcome = "failed"}

C27_MetricsTransparent ==
  /\ [](\A c \in MetricCallers :
          mcalls[c].pc # "idle" => (mcalls[c].out = mcalls[c].exec /\ ~mcalls[c].unhandled))
  /\ [][\A c \in MetricCallers : mcalls[c].pc # "idle" => mcalls'[c].out = mcalls[c].out]_vars

\* The operation threw and its recording then failed to save: withMetrics
\* has thrown the operation's error, and the failure was logged only
C27_Witness ==
  /\ mcalls["m1"].pc = "done"
  /\ mcalls["m1"].exec.kind = "threw"
  /\ mcalls["m1"].out = mcalls["m1"].exec
  /\ mcalls["m1"].logged
  /\ mcalls["m2"].pc = "done"
  /\ mcalls["m2"].exec.kind = "returned"
  /\ mcalls["m2"].out = mcalls["m2"].exec
  /\ mfile.state = "not json"

\* The recording of call c has ended with no failure of the storage: its
\* read did not fail, and nothing was thrown for it to log
RecordedCleanly(c) ==
  /\ mcalls[c].pc = "done"
  /\ ~mcalls[c].logged
  /\ ~mcalls[c].readFailed

\* C38: once the recordings of the calls have all ended with no failure of
\* the storage, the metrics file holds the record of each of the calls,
\* however their loads and saves interleaved.
C38_NoRecordLost ==
  (\A c \in MetricCallers : RecordedCleanly(c)) =>
     /\ mfile.state = "store"
     /\ \A c \in MetricCallers :
           \E i \in 1..Len(mfile.calls) : mfile.calls[i] = mcalls[c].record

\* Both recordings loaded the file before either saved, and both saved: the
\* file holds the record of the one that saved last and not the other's
RecordLost ==
  /\ \A c \in MetricCallers : RecordedCleanly(c)
  /\ \A c \in MetricCallers : Len(mcalls[c].store) = 1
  /\ mfile.state = "store"
  /\ mfile.calls = <<mcalls["m2"].record>>

\* One recording after the other: the second loaded what the first had
\* saved, and the file holds both records
BothRecorded ==
  /\ \A c \in MetricCallers : RecordedCleanly(c)
  /\ mcalls["m1"].store = <<mcalls["m1"].record>>
  /\ mcalls["m2"].store = <<mcalls["m1"].record, mcalls["m2"].record>>
  /\ mfile.calls = mcalls["m2"].store

(***************************************************************************)
(* Properties of the file search's filters                                 *)
(***************************************************************************)
\* A filter is among the arguments and is no well-formed literal
Malformed(arg, parsed) == arg # Absent /\ ~parsed.ok

MalformedFilter ==
  \/ Malformed(fsearch.args.modified_within, parseDuration(fsearch.args.modified_within.chars))
  \/ Malformed(fsearch.args.min_size, parseSize(fsearch.args.min_size.chars))

\* C26: a file search with a min_size or modified_within that is supplied
\* and is no well-formed literal ends by raising an error, never with a
\* result, and leaves the entries of the cache as they were.
C26_MalformedFilterRaises ==
  (fsearch.pc = "done" /\ MalformedFilter) =>
     (fsearch.outcome = "raised" /\ qcache.cache = fsearch.before)

\* The same for the filters that are supplied, are not the empty string and
\* are no well-formed literal
MalformedFilterRaises_NotEmpty ==
  (fsearch.pc = "done"
     /\ \/ Malformed(fsearch.args.modified_within,
                     parseDuration(fsearch.args.modified_within.chars))
             /\ fsearch.args.modified_within.chars # <<>>
        \/ Malformed(fsearch.args.min_size, parseSize(fsearch.args.min_size.chars))
             /\ fsearch.args.min_size.chars # <<>>) =>
     (fsearch.outcome = "raised" /\ qcache.cache = fsearch.before)

\* A search given the empty string as min_size has returned both files it
\* found, unfiltered, and its result is in the cache
EmptyLiteralSkipsFilter ==
  /\ fsearch.pc = "done"
  /\ fsearch.args.min_size = Given(<<>>)
  /\ fsearch.outcome = "returned"
  /\ fsearch.sizeBytes = "none"
  /\ Len(fsearch.ret.files) = 2
  /\ qcache.cache # fsearch.before

(***************************************************************************)
(* Properties of QueryCache under the periodic sweep                       *)
(***************************************************************************)
\* C28: however the sweep of the interval timer falls between the get, set
\* and has calls of the requests and the advances of the clock, a get
\* returns only the value of an entry whose age is at most ttl, and a sweep
\* removes no entry whose age is at most ttl when it runs.
C28_SweepAtomic ==
  /\ [][(lastOp'.op = "get" /\ lastOp'.ret # Undefined) =>
          \E i \in 1..Len(qcache.cache) :
             /\ qcache.cache[i].key = lastOp'.key
             /\ qcache.cache[i].value = lastOp'.ret
             /\ now - qcache.cache[i].timestamp <= ttlMs]_vars
  /\ [][lastOp'.op = "cleanup" =>
          \A i \in 1..Len(qcache.cache) :
             (now - qcache.cache[i].timestamp <= ttlMs) =>
                \E j \in 1..Len(qcache'.cache) : qcache'.cache[j] = qcache.cache[i]]_vars

\* A sweep has removed an entry older than ttl and kept one whose age is
\* exactly ttl
C28_Witness ==
  /\ lastOp.op = "cleanup"
  /\ lastOp.removed = 1
  /\ Len(qcache.cache) = 1
  /\ now - qcache.cache[1].timestamp = ttlMs

(***************************************************************************)
(* Properties of two traversals at once                                    *)
(***************************************************************************)
\* What a traversal hands back, and what its tracker answered on the way
Produced(w) ==
  [tree |-> w.tree, totalFiles |-> w.totalFiles, totalDirs |-> w.totalDirs,
   refused |-> w.refused, listed |-> w.listed]

\* Traversal t as it was called
Called(t) ==
  [NoWalk EXCEPT !.pc = "walking", !.fs = walks[t].fs, !.depth = walks[t].depth,
                 !.include_hidden = walks[t].include_hidden,
                 !.dirs_only = walks[t].dirs_only,
                 !.stack = <<Frame(walks[t].fs.root, 1)>>]

\* C29: each traversal has its own tracker; however the steps of two
\* traversals of the same directories interleave, each ends with the tree,
\* the counts and the answers of checkAndMark it has when run alone.
C29_OwnTracker ==
  /\ \A t \in Traversals : trackers[t] = walks[t].tracker
  /\ \A t \in Traversals :
       walks[t].pc = "done" => Produced(walks[t]) = Produced(RunAlone(Called(t)))

\* Two traversals of the directory mounted under itself, three levels deep,
\* have both ended: each was refused at the directories it had already
\* marked itself, each has the whole tree, and the two trackers hold the
\* same identities
C29_Witness ==
  /\ \A t \in Traversals :
       /\ walks[t].pc = "done"
       /\ walks[t].fs = BindFs
       /\ walks[t].depth = 3
       /\ walks[t].refused = 2
       /\ Len(walks[t].tree) = 4
  /\ trackers["t1"] = trackers["t2"]


====
